---------------------------- MODULE Spec2Model ----------------------------
(***************************************************************************)
(* Model of the data-standardisation core of the charging-infrastructure   *)
(* dashboards: utils/unified_data_repository.py (UnifiedDataRepository),   *)
(* utils/data_validator.py (DataValidator), utils/data_loader.py           *)
(* (DataLoader) and utils/data_adapters (Station-, Session- and            *)
(* ForecastAdapter).                                                       *)
(*                                                                         *)
(* Python values are modelled as follows.                                  *)
(*   dict            a function whose DOMAIN is the set of keys present    *)
(*   list            a sequence                                            *)
(*   None / a value  <<>> / <<v>>  (None, Some(v))                         *)
(*   pandas frame    [kind |-> "DataFrame", columns, rows]: rows is the    *)
(*                   sequence of rows, each a function columns -> cell     *)
(*   object identity a positive integer (0 is "no object")                 *)
(*   a call's result [exc |-> "" or the exception type, value |-> ...]     *)
(***************************************************************************)
EXTENDS Integers, Sequences, FiniteSets, TLC

VARIABLES
    _instance,     \* UnifiedDataRepository._instance: 0 (None) or the object
    heap,          \* object id -> the object's attributes (datasets, metadata, subscriptions)
    handles,       \* holder -> the repository object it got from UnifiedDataRepository()
    ret,           \* the last call: operation, arguments, result, callbacks invoked, and for a
                   \* registration whether it replaced a different payload
    registered,    \* history: dataset id -> payload of the latest register_dataset call
    subscribed,    \* history: dataset id -> callbacks subscribed and not unsubscribed, oldest first
    vdata,         \* DataValidator: the collection handed to validate_data
    vschemas,      \* DataValidator.schemas: schema name -> loaded schema
    data_dir,      \* DataLoader.data_dir: the files under the data root, in listing order
    raw,           \* adapters: the raw input handed to a transform
    adapter_schema, \* adapters: self.schema, None when loading the schema file failed
    objects,       \* payload objects: reference -> the value of the object
    held,          \* reader -> None, or the reference get_dataset returned to it
    writer         \* a register_dataset call in progress: None, or what it has stored

vars == <<_instance, heap, handles, ret, registered, subscribed, vdata, vschemas, data_dir, raw, adapter_schema,
          objects, held, writer>>

repoVars == <<_instance, heap, handles, registered, subscribed>>
validatorVars == <<vdata, vschemas>>
loaderVars == <<data_dir>>
adapterVars == <<raw, adapter_schema>>
readerVars == <<objects, held, writer>>

---------------------------------------------------------------------------
(* Python values *)

None == <<>>
Some(v) == <<v>>

EmptyDict == [k \in {} |-> 0]

\* d[key] = value on a dict
DictSet(d, key, value) == [k \in DOMAIN d \cup {key} |-> IF k = key THEN value ELSE d[k]]

\* d.update(other)
DictUpdate(d, other) == [k \in DOMAIN d \cup DOMAIN other |-> IF k \in DOMAIN other THEN other[k] ELSE d[k]]

Range(s) == {s[i] : i \in DOMAIN s}

\* the sequences over S of length at most n
SeqsUpTo(S, n) == UNION {[1..k -> S] : k \in 0..n}

\* the sequences over S of length at most n without a repeated element
DistinctSeqs(S, n) == {s \in SeqsUpTo(S, n) : \A i, j \in DOMAIN s : s[i] = s[j] => i = j}

\* list.remove(x): drops the first occurrence of x (x is known to occur)
ListRemove(s, x) ==
    LET first == CHOOSE i \in DOMAIN s : s[i] = x /\ \A j \in 1..(i - 1) : s[j] # x
    IN  SubSeq(s, 1, first - 1) \o SubSeq(s, first + 1, Len(s))

Count(s, x) == Cardinality({i \in DOMAIN s : s[i] = x})

Returned(v) == [exc |-> "", value |-> v]
Raised(e) == [exc |-> e, value |-> None]

---------------------------------------------------------------------------
(* Bounds and input sets *)

MaxCallbacks == 2
MaxRows == 2

\* the fixed dataset ids the loader registers (data_loader.py) that the model uses
DatasetIds == {"stations", "sessions"}

Callbacks == 1..MaxCallbacks

Columns == {"station_id", "city"}
\* two distinct cell values
Cells == {1, 2}
RowsOver(cols) == [cols -> Cells]

DataFrame(rows) == [kind |-> "DataFrame", columns |-> Columns, rows |-> rows]
\* a payload that is not a DataFrame: a plain list of records
PlainList(rows) == [kind |-> "list", columns |-> {}, rows |-> rows]

DataFrames == {DataFrame(rows) : rows \in SeqsUpTo(RowsOver(Columns), MaxRows)}


\* the payloads and metadata the repository specification registers
EmptyFrame == DataFrame(<<>>)
UniformFrames == {DataFrame(<<[c \in Columns |-> v]>>) : v \in Cells}
RepoPayloads == {EmptyFrame} \cup UniformFrames

\* time.time()
Times == {9}

Handles == {"loader", "cli"}

---------------------------------------------------------------------------
(* UnifiedDataRepository *)

_initialize == [datasets |-> EmptyDict, metadata |-> EmptyDict, subscriptions |-> EmptyDict]

\* a constructor that lacks the "if cls._instance is None" test: every
\* construction allocates and initialises a new object
__new___always_new(inst, hp) ==
    LET obj == Cardinality(DOMAIN hp) + 1
    IN  [instance |-> obj, heap |-> DictSet(hp, obj, _initialize), result |-> obj, initialized |-> TRUE]

\* UnifiedDataRepository(): the object construction returns, the class attribute
\* and the heap after it, and whether _initialize ran
__new__(inst, hp) ==
    IF inst = 0
    THEN LET obj == Cardinality(DOMAIN hp) + 1
         IN  [instance |-> obj, heap |-> DictSet(hp, obj, _initialize), result |-> obj, initialized |-> TRUE]
    ELSE [instance |-> inst, heap |-> hp, result |-> inst, initialized |-> FALSE]

\* a filter value: a scalar (isinstance(value, list) is false) or a list
Scalar(v) == [is_list |-> FALSE, items |-> <<v>>]
ListOf(vs) == [is_list |-> TRUE, items |-> vs]

\* a filter step that tests a list value with == as if it were a scalar
filter_rows_no_isin(data, column, value) ==
    LET keep(row) == value.items # <<>> /\ row[column] = value.items[1]
    IN  [data EXCEPT !.rows = SelectSeq(@, keep)]

\* data[data[column].isin(value)] / data[data[column] == value]
filter_rows(data, column, value) ==
    LET keep(row) == IF value.is_list THEN row[column] \in Range(value.items)
                     ELSE row[column] = value.items[1]
    IN  [data EXCEPT !.rows = SelectSeq(@, keep)]

\* the loop over filters.items(), from entry i on; an entry is <<column, value>>
RECURSIVE apply_filters(_, _, _)
apply_filters(data, entries, i) ==
    IF i > Len(entries) THEN data
    ELSE LET column == entries[i][1]
             value == entries[i][2]
         IN  IF column \in data.columns
             THEN apply_filters(filter_rows(data, column, value), entries, i + 1)
             ELSE apply_filters(data, entries, i + 1)

\* a lookup in the style of dict.get: an unknown id gives None, no KeyError
get_dataset_or_none(r, dataset_id, filters) ==
    IF dataset_id \notin DOMAIN r.datasets THEN Returned(None)
    ELSE LET data == r.datasets[dataset_id]
         IN  IF filters # None /\ filters[1] # <<>> /\ data.kind = "DataFrame"
             THEN Returned(apply_filters(data, filters[1], 1))
             ELSE Returned(data)

\* filters is None or Some(entries), entries the dict's items in iteration order
get_dataset(r, dataset_id, filters) ==
    IF dataset_id \notin DOMAIN r.datasets THEN Raised("KeyError")
    ELSE LET data == r.datasets[dataset_id]
         IN  IF filters # None /\ filters[1] # <<>> /\ data.kind = "DataFrame"
             THEN Returned(apply_filters(data, filters[1], 1))
             ELSE Returned(data)

\* one invocation of a callback inside the try block: the callbacks of raisers raise
callback(cb, arg, raisers) == [callback |-> cb, arg |-> arg, raised |-> cb \in raisers]

\* the for loop of _notify_subscribers from list position i on (a Python list
\* iterator: position i of the list as it is when the position is reached)
RECURSIVE notify_loop(_, _, _, _, _)
notify_loop(r, dataset_id, i, calls, raisers) ==
    IF i > Len(r.subscriptions[dataset_id]) THEN [repo |-> r, calls |-> calls, exc |-> ""]
    ELSE LET call == callback(r.subscriptions[dataset_id][i], r.datasets[dataset_id], raisers)
         IN  \* except Exception: print(...)
             notify_loop(r, dataset_id, i + 1, Append(calls, call), raisers)

\* the loop without its try/except: the first exception ends the loop and propagates
RECURSIVE notify_loop_no_try(_, _, _, _, _)
notify_loop_no_try(r, dataset_id, i, calls, raisers) ==
    IF i > Len(r.subscriptions[dataset_id]) THEN [repo |-> r, calls |-> calls, exc |-> ""]
    ELSE LET call == callback(r.subscriptions[dataset_id][i], r.datasets[dataset_id], raisers)
         IN  IF call.raised THEN [repo |-> r, calls |-> Append(calls, call), exc |-> "Exception"]
             ELSE notify_loop_no_try(r, dataset_id, i + 1, Append(calls, call), raisers)

_notify_subscribers_no_try(r, dataset_id, raisers) ==
    IF dataset_id \in DOMAIN r.subscriptions
    THEN notify_loop_no_try(r, dataset_id, 1, <<>>, raisers)
    ELSE [repo |-> r, calls |-> <<>>, exc |-> ""]

_notify_subscribers(r, dataset_id, raisers) ==
    IF dataset_id \in DOMAIN r.subscriptions
    THEN notify_loop(r, dataset_id, 1, <<>>, raisers)
    ELSE [repo |-> r, calls |-> <<>>, exc |-> ""]

\* a store that extends a stored frame instead of replacing it
store_dataset_merge(r, dataset_id, data) ==
    IF dataset_id \in DOMAIN r.datasets
    THEN [r EXCEPT !.datasets[dataset_id] = [@ EXCEPT !.rows = @ \o data.rows]]
    ELSE [r EXCEPT !.datasets = DictSet(@, dataset_id, data)]

\* a store that writes the payload under every id that has one, and the given id
store_dataset_every_id(r, dataset_id, data) ==
    [r EXCEPT !.datasets = [d \in DOMAIN r.datasets \cup {dataset_id} |-> data]]

\* self.datasets[dataset_id] = data
store_dataset(r, dataset_id, data) == [r EXCEPT !.datasets = DictSet(@, dataset_id, data)]

\* metadata stored by assignment instead of dict.update: earlier keys are lost
update_metadata_reset(r, dataset_id, metadata) ==
    IF metadata # None /\ DOMAIN metadata[1] # {}
    THEN [r EXCEPT !.metadata = DictSet(@, dataset_id, metadata[1])]
    ELSE r

\* if metadata: ... self.metadata[dataset_id].update(metadata)
update_metadata(r, dataset_id, metadata) ==
    IF metadata # None /\ DOMAIN metadata[1] # {}
    THEN LET old == IF dataset_id \in DOMAIN r.metadata THEN r.metadata[dataset_id] ELSE EmptyDict
         IN  [r EXCEPT !.metadata = DictSet(@, dataset_id, DictUpdate(old, metadata[1]))]
    ELSE r

\* if dataset_id in self.metadata and 'last_updated' not in ...: ... = time.time()
stamp_metadata(r, dataset_id, now) ==
    IF dataset_id \in DOMAIN r.metadata /\ "last_updated" \notin DOMAIN r.metadata[dataset_id]
    THEN [r EXCEPT !.metadata[dataset_id] = DictSet(@, "last_updated", now)]
    ELSE r

register_dataset(r, dataset_id, data, metadata, now, raisers) ==
    _notify_subscribers(
        stamp_metadata(update_metadata(store_dataset(r, dataset_id, data), dataset_id, metadata),
                       dataset_id, now),
        dataset_id, raisers)

\* subscribe without the "callback not in" test
subscribe_always_append(r, dataset_id, cb) ==
    LET r1 == IF dataset_id \notin DOMAIN r.subscriptions
              THEN [r EXCEPT !.subscriptions = DictSet(@, dataset_id, <<>>)]
              ELSE r
    IN  [r1 EXCEPT !.subscriptions[dataset_id] = Append(@, cb)]

subscribe(r, dataset_id, cb) ==
    LET r1 == IF dataset_id \notin DOMAIN r.subscriptions
              THEN [r EXCEPT !.subscriptions = DictSet(@, dataset_id, <<>>)]
              ELSE r
    IN  IF cb \notin Range(r1.subscriptions[dataset_id])
        THEN [r1 EXCEPT !.subscriptions[dataset_id] = Append(@, cb)]
        ELSE r1

\* unsubscribe that reports success and leaves the callback in the list
unsubscribe_no_remove(r, dataset_id, cb) ==
    IF dataset_id \in DOMAIN r.subscriptions /\ cb \in Range(r.subscriptions[dataset_id])
    THEN [repo |-> r, value |-> TRUE]
    ELSE [repo |-> r, value |-> FALSE]

unsubscribe(r, dataset_id, cb) ==
    IF dataset_id \in DOMAIN r.subscriptions /\ cb \in Range(r.subscriptions[dataset_id])
    THEN [repo |-> [r EXCEPT !.subscriptions[dataset_id] = ListRemove(@, cb)], value |-> TRUE]
    ELSE [repo |-> r, value |-> FALSE]

get_metadata(r, dataset_id) ==
    IF dataset_id \notin DOMAIN r.metadata THEN None ELSE Some(r.metadata[dataset_id])

---------------------------------------------------------------------------
(* The repository's operations as actions.  h is the holder making the call. *)

Repo(h) == heap[handles[h]]

\* repository = UnifiedDataRepository()   (DataLoader.__init__, the validator's CLI)
Construct(h) ==
    LET n == __new__(_instance, heap)
    IN  /\ _instance' = n.instance
        /\ heap' = n.heap
        /\ handles' = [handles EXCEPT ![h] = n.result]
        /\ ret' = [op |-> "__new__", handle |-> h, value |-> n.result, initialized |-> n.initialized]
        /\ UNCHANGED <<registered, subscribed, validatorVars, loaderVars, adapterVars, readerVars>>

RegisterDataset(h, dataset_id, data, metadata, now, raisers) ==
    /\ handles[h] # 0
    /\ LET res == register_dataset(Repo(h), dataset_id, data, metadata, now, raisers)
       IN  /\ heap' = [heap EXCEPT ![handles[h]] = res.repo]
           /\ ret' = [op |-> "register_dataset", handle |-> h, dataset_id |-> dataset_id,
                      data |-> data, metadata |-> metadata, exc |-> res.exc, calls |-> res.calls,
                      replaced |-> /\ dataset_id \in DOMAIN Repo(h).datasets
                                   /\ Repo(h).datasets[dataset_id] # data]
    /\ registered' = DictSet(registered, dataset_id, data)
    /\ UNCHANGED <<_instance, handles, subscribed, validatorVars, loaderVars, adapterVars, readerVars>>

GetDataset(h, dataset_id, filters) ==
    /\ handles[h] # 0
    /\ LET res == get_dataset(Repo(h), dataset_id, filters)
       IN  ret' = [op |-> "get_dataset", handle |-> h, dataset_id |-> dataset_id,
                   filters |-> filters, exc |-> res.exc, value |-> res.value]
    /\ UNCHANGED <<repoVars, validatorVars, loaderVars, adapterVars, readerVars>>

Subscribe(h, dataset_id, cb) ==
    /\ handles[h] # 0
    /\ heap' = [heap EXCEPT ![handles[h]] = subscribe(@, dataset_id, cb)]
    /\ ret' = [op |-> "subscribe", handle |-> h, dataset_id |-> dataset_id, callback |-> cb]
    /\ subscribed' = [subscribed EXCEPT ![dataset_id] = IF cb \in Range(@) THEN @ ELSE Append(@, cb)]
    /\ UNCHANGED <<_instance, handles, registered, validatorVars, loaderVars, adapterVars, readerVars>>

Unsubscribe(h, dataset_id, cb) ==
    /\ handles[h] # 0
    /\ LET res == unsubscribe(Repo(h), dataset_id, cb)
       IN  /\ heap' = [heap EXCEPT ![handles[h]] = res.repo]
           /\ ret' = [op |-> "unsubscribe", handle |-> h, dataset_id |-> dataset_id,
                      callback |-> cb, value |-> res.value]
    /\ subscribed' = [subscribed EXCEPT ![dataset_id] = SelectSeq(@, LAMBDA c : c # cb)]
    /\ UNCHANGED <<_instance, handles, registered, validatorVars, loaderVars, adapterVars, readerVars>>

GetMetadata(h, dataset_id) ==
    /\ handles[h] # 0
    /\ ret' = [op |-> "get_metadata", handle |-> h, dataset_id |-> dataset_id,
               value |-> get_metadata(Repo(h), dataset_id)]
    /\ UNCHANGED <<repoVars, validatorVars, loaderVars, adapterVars, readerVars>>

---------------------------------------------------------------------------
(* Initial states *)

NoCall == [op |-> "none"]

\* no validator call is in progress
InitValidatorIdle ==
    /\ vdata = <<>>
    /\ vschemas = EmptyDict

\* no file under the data root, no adapter input
InitNoFiles == data_dir = <<>>
InitAdapterIdle ==
    /\ raw = <<>>
    /\ adapter_schema = <<>>

\* no payload object is tracked, no reader holds one, no registration is in progress
InitNoReaders ==
    /\ objects = <<>>
    /\ held = <<>>
    /\ writer = <<>>

\* the process before the first UnifiedDataRepository()
InitNoRepo ==
    /\ InitNoReaders
    /\ _instance = 0
    /\ heap = EmptyDict
    /\ handles = [h \in Handles |-> 0]
    /\ registered = EmptyDict
    /\ subscribed = [d \in DatasetIds |-> <<>>]
    /\ ret = NoCall

\* the process after DataLoader() has constructed the repository
InitLoaderRepo ==
    /\ InitNoReaders
    /\ _instance = __new__(0, EmptyDict).instance
    /\ heap = __new__(0, EmptyDict).heap
    /\ handles = [h \in Handles |-> IF h = "loader" THEN __new__(0, EmptyDict).result ELSE 0]
    /\ registered = EmptyDict
    /\ subscribed = [d \in DatasetIds |-> <<>>]
    /\ ret = NoCall

\* the callbacks whose body raises an Exception when invoked (the others return)
RaisingCallbacks == {cb \in Callbacks : cb % 2 = 1}

---------------------------------------------------------------------------
(* Spec: the repository behind the DataLoader's handle: registration (without
   metadata), unfiltered reads, subscribe and unsubscribe on every dataset id. *)

Init == InitLoaderRepo /\ InitValidatorIdle /\ InitNoFiles /\ InitAdapterIdle

Next ==
    \/ \E d \in DatasetIds, data \in RepoPayloads, now \in Times :
           RegisterDataset("loader", d, data, None, now, RaisingCallbacks)
    \/ \E d \in DatasetIds : GetDataset("loader", d, None)
    \/ \E d \in DatasetIds, cb \in Callbacks : Subscribe("loader", d, cb)
    \/ \E d \in DatasetIds, cb \in Callbacks : Unsubscribe("loader", d, cb)

Spec == Init /\ [][Next]_vars

---------------------------------------------------------------------------
(* Claims checked under Spec *)

LoaderRepo == Repo("loader")

\* the subscriber list of dataset_id, [] when the id has no list
SubscriberList(r, dataset_id) ==
    IF dataset_id \in DOMAIN r.subscriptions THEN r.subscriptions[dataset_id] ELSE <<>>

\* C1: once an id has been registered, get_dataset(id) without filters returns
\* exactly the payload of the latest register_dataset(id, ...): the round trip
\* holds, a second registration replaces the first and nothing of the first
\* remains, after any sequence of register/subscribe/unsubscribe operations.
C1_RegisterGetRoundTrip ==
    \A d \in DatasetIds :
        d \in DOMAIN registered => get_dataset(LoaderRepo, d, None) = Returned(registered[d])

\* C1 witness: a registration of a non-empty payload that replaced a different
\* payload, after which get_dataset returns the new payload.
C1_Witness ==
    /\ ret.op = "register_dataset"
    /\ ret.replaced
    /\ ret.data.rows # <<>>
    /\ get_dataset(LoaderRepo, ret.dataset_id, None) = Returned(ret.data)

\* C2: a register_dataset(id, payload) invokes each callback that was subscribed
\* to id and not unsubscribed since exactly once, with the payload just
\* registered, and invokes no other callback (none that was unsubscribed, none
\* that never subscribed).
C2_SubscribersInvokedOnce ==
    ret.op = "register_dataset" =>
        /\ \A cb \in Callbacks :
               Count([i \in DOMAIN ret.calls |-> ret.calls[i].callback], cb)
                   = IF cb \in Range(subscribed[ret.dataset_id]) THEN 1 ELSE 0
        /\ \A i \in DOMAIN ret.calls : ret.calls[i].arg = ret.data

\* C2 witness: a second registration (it replaced a payload) on an id with
\* exactly one subscribed callback, which was invoked once with the new payload.
C2_Witness ==
    /\ ret.op = "register_dataset"
    /\ ret.replaced
    /\ Len(subscribed[ret.dataset_id]) = 1
    /\ Len(ret.calls) = 1
    /\ ret.calls[1].callback = subscribed[ret.dataset_id][1]
    /\ ret.calls[1].arg = ret.data

\* C4: register_dataset invokes the subscribed callbacks in the order in which
\* they were subscribed; a raising callback stops nothing: every later subscriber
\* is invoked, register_dataset returns normally and the new payload is stored.
C4_NotifyInOrderDespiteExceptions ==
    ret.op = "register_dataset" =>
        /\ [i \in DOMAIN ret.calls |-> ret.calls[i].callback] = subscribed[ret.dataset_id]
        /\ ret.exc = ""
        /\ get_dataset(LoaderRepo, ret.dataset_id, None) = Returned(ret.data)

\* C4 witness: a notification whose first callback raised and whose next callback
\* was invoked all the same.
C4_Witness ==
    /\ ret.op = "register_dataset"
    /\ Len(ret.calls) >= 2
    /\ ret.calls[1].raised
    /\ ~ret.calls[2].raised
    /\ ret.exc = ""

\* C7: subscribe and unsubscribe are idempotent.  A subscribe leaves exactly one
\* entry for the callback and changes nothing when the callback was subscribed
\* already; no list ever holds a callback twice; unsubscribe returns whether the
\* callback was subscribed, removes it completely when it was, and otherwise
\* leaves datasets, metadata and subscriptions unchanged.
C7_SubscribeUnsubscribeIdempotent ==
    [][ /\ \A d \in DatasetIds, cb \in Callbacks : Count(SubscriberList(LoaderRepo', d), cb) <= 1
        /\ ret'.op = "subscribe" =>
               /\ Count(SubscriberList(LoaderRepo', ret'.dataset_id), ret'.callback) = 1
               /\ ret'.callback \in Range(SubscriberList(LoaderRepo, ret'.dataset_id))
                      => LoaderRepo' = LoaderRepo
        /\ ret'.op = "unsubscribe" =>
               /\ ret'.value = (ret'.callback \in Range(SubscriberList(LoaderRepo, ret'.dataset_id)))
               /\ ret'.value => ret'.callback \notin Range(SubscriberList(LoaderRepo', ret'.dataset_id))
               /\ ~ret'.value => LoaderRepo' = LoaderRepo
      ]_vars

\* C7 witness: an unsubscribe of a callback that is not subscribed to an id that
\* has another subscriber: it returned False.
C7_Witness ==
    /\ ret.op = "unsubscribe"
    /\ ret.value = FALSE
    /\ SubscriberList(LoaderRepo, ret.dataset_id) # <<>>

---------------------------------------------------------------------------
(* SpecSingleton: the process from before the first construction, with two
   holders (the DataLoader and the validator's command line) constructing the
   repository in any order and any number of times and using it on one id. *)

SingletonIds == {"stations"}

InitSingleton == InitNoRepo /\ InitValidatorIdle /\ InitNoFiles /\ InitAdapterIdle

NextSingleton ==
    \/ \E h \in Handles : Construct(h)
    \/ \E h \in Handles, d \in SingletonIds, data \in RepoPayloads, now \in Times :
           RegisterDataset(h, d, data, None, now, RaisingCallbacks)
    \/ \E h \in Handles, d \in SingletonIds : GetDataset(h, d, None)
    \/ \E h \in Handles, d \in SingletonIds, cb \in Callbacks : Subscribe(h, d, cb)
    \/ \E h \in Handles, d \in SingletonIds, cb \in Callbacks : Unsubscribe(h, d, cb)

SpecSingleton == InitSingleton /\ [][NextSingleton]_vars

\* C8: single registry per process.  After every step: every holder that has
\* constructed the repository holds the one instance; through every such handle
\* each registered dataset reads back as its latest payload and each id shows the
\* callbacks subscribed to it, whichever handle registered or subscribed them.
\* _initialize runs on a construction exactly when no instance existed, and a
\* construction while an instance exists changes no object.
C8_SingleRegistry ==
    [][ /\ \A h \in Handles : handles'[h] \in {0, _instance'}
        /\ \A h \in Handles : handles'[h] # 0 =>
               /\ \A d \in DOMAIN registered' :
                      get_dataset(Repo(h)', d, None) = Returned(registered'[d])
               /\ \A d \in DatasetIds : SubscriberList(Repo(h)', d) = subscribed'[d]
        /\ ret'.op = "__new__" =>
               /\ ret'.initialized = (_instance = 0)
               /\ _instance # 0 => (heap' = heap /\ _instance' = _instance /\ ret'.value = _instance)
      ]_vars

\* C8 witness: the validator's command line constructs the repository after the
\* DataLoader registered a dataset and subscribed a callback through its own
\* handle: nothing is initialised and the dataset and the subscription are there.
C8_Witness ==
    /\ ret.op = "__new__"
    /\ ret.handle = "cli"
    /\ ~ret.initialized
    /\ handles["loader"] # 0
    /\ "stations" \in DOMAIN registered
    /\ registered["stations"].rows # <<>>
    /\ get_dataset(Repo("cli"), "stations", None) = Returned(registered["stations"])
    /\ subscribed["stations"] # <<>>
    /\ SubscriberList(Repo("cli"), "stations") = subscribed["stations"]

---------------------------------------------------------------------------
(* SpecMeta: registrations of one dataset id with every metadata argument (none,
   an empty dict, every dict over MetaKeys) and reads of the metadata. *)

MetaKeys == {"last_updated", "schema", "record_count"}
MetaValues == {1, 2}
MetaDicts == UNION {[keys -> MetaValues] : keys \in SUBSET MetaKeys}
MetaArgs == {None} \cup {Some(m) : m \in MetaDicts}

MetaIds == {"stations"}

InitMeta == InitLoaderRepo /\ InitValidatorIdle /\ InitNoFiles /\ InitAdapterIdle

NextMeta ==
    \/ \E d \in MetaIds, metadata \in MetaArgs, now \in Times :
           RegisterDataset("loader", d, EmptyFrame, metadata, now, RaisingCallbacks)
    \/ \E d \in DatasetIds : GetMetadata("loader", d)

SpecMeta == InitMeta /\ [][NextMeta]_vars

\* the dict passed as metadata, {} when None was passed
GivenMetadata(metadata) == IF metadata = None THEN EmptyDict ELSE metadata[1]

\* C5: metadata is merged across registrations and never reset.  After a
\* register_dataset(id, data, m): every key of m is in get_metadata(id) with m's
\* value, and every key the metadata of id held before that m does not contain
\* is still there with its old value; a registration with no metadata leaves
\* existing metadata exactly as it was.
C5_MetadataMerged ==
    [][ ret'.op = "register_dataset" =>
            LET d == ret'.dataset_id
                m == GivenMetadata(ret'.metadata)
                old == get_metadata(LoaderRepo, d)
                new == get_metadata(LoaderRepo', d)
            IN  /\ \A k \in DOMAIN m : new # None /\ k \in DOMAIN new[1] /\ new[1][k] = m[k]
                /\ old # None =>
                       /\ new # None
                       /\ \A k \in DOMAIN old[1] \ DOMAIN m : k \in DOMAIN new[1] /\ new[1][k] = old[1][k]
                       /\ ret'.metadata = None => new = old
      ]_vars

\* C5 witness: a registration with metadata m2 after which the metadata of the id
\* holds m2's keys and also a key (other than the stamp) that m2 does not have.
C5_Witness ==
    /\ ret.op = "register_dataset"
    /\ ret.metadata # None
    /\ DOMAIN ret.metadata[1] # {}
    /\ get_metadata(LoaderRepo, ret.dataset_id) # None
    /\ \E k \in DOMAIN get_metadata(LoaderRepo, ret.dataset_id)[1] :
           k # "last_updated" /\ k \notin DOMAIN ret.metadata[1]
    /\ \A k \in DOMAIN ret.metadata[1] :
           get_metadata(LoaderRepo, ret.dataset_id)[1][k] = ret.metadata[1][k]

\* C6: the metadata of every registered dataset id is auto-stamped: after any
\* register_dataset(id, data, metadata?), get_metadata(id) is a dict that contains
\* a last_updated entry.
C6_MetadataAlwaysStamped ==
    \A d \in DOMAIN registered :
        /\ get_metadata(LoaderRepo, d) # None
        /\ "last_updated" \in DOMAIN get_metadata(LoaderRepo, d)[1]

---------------------------------------------------------------------------
(* SpecFilter: one dataset id, unregistered at first, registered with every
   frame of at most MaxRows rows (and with payloads that are not frames), and
   read with filters.  The claims quantify over FilterArgs in every state. *)

FilterIds == {"stations"}

\* filter columns: the frame's columns and one the frame does not have
FilterColumns == Columns \cup {"operator"}
FilterValues == {Scalar(v) : v \in Cells} \cup {ListOf(vs) : vs \in DistinctSeqs(Cells, 2)}
FilterEntries == FilterColumns \X FilterValues
\* filters.items() of every dict of at most two entries
FilterDicts == {es \in SeqsUpTo(FilterEntries, 2) : \A i, j \in DOMAIN es : es[i][1] = es[j][1] => i = j}
FilterArgs == {None} \cup {Some(es) : es \in FilterDicts}

FilterPayloads == DataFrames \cup {PlainList(<<>>), PlainList(<<[station_id |-> 1]>>)}

\* the filters the read action is called with
SampleFilters ==
    { None,
      Some(<<>>),
      Some(<< <<"station_id", Scalar(1)>> >>),
      Some(<< <<"station_id", ListOf(<<1, 2>>)>>, <<"city", Scalar(2)>> >>),
      Some(<< <<"operator", Scalar(1)>> >>) }

InitFilter == InitLoaderRepo /\ InitValidatorIdle /\ InitNoFiles /\ InitAdapterIdle

NextFilter ==
    \/ \E d \in FilterIds, data \in FilterPayloads, now \in Times :
           RegisterDataset("loader", d, data, None, now, RaisingCallbacks)
    \/ \E d \in FilterIds, filters \in SampleFilters : GetDataset("loader", d, filters)

SpecFilter == InitFilter /\ [][NextFilter]_vars

\* C3: for every value of filters, get_dataset on an id that was never registered
\* fails with KeyError (it returns nothing: no empty collection, no None), and
\* get_dataset on a registered id returns normally, also when the payload is
\* empty or the filters match no row.
C3_UnknownIdIsKeyError ==
    \A d \in FilterIds, filters \in FilterArgs :
        IF d \in DOMAIN registered
        THEN get_dataset(LoaderRepo, d, filters).exc = ""
        ELSE get_dataset(LoaderRepo, d, filters) = Raised("KeyError")

\* C3 witness: a filtered read of a registered, non-empty frame that matched no
\* row: it returned the empty frame and did not fail.
C3_Witness ==
    /\ ret.op = "get_dataset"
    /\ ret.filters # None
    /\ ret.dataset_id \in DOMAIN registered
    /\ registered[ret.dataset_id].rows # <<>>
    /\ ret.exc = ""
    /\ ret.value = EmptyFrame

\* does row satisfy the predicate of a filter entry on a column the row has
Satisfies(row, entry) ==
    IF entry[2].is_list THEN \E i \in DOMAIN entry[2].items : row[entry[1]] = entry[2].items[i]
    ELSE row[entry[1]] = entry[2].items[1]

Reverse(s) == [i \in DOMAIN s |-> s[Len(s) + 1 - i]]

\* C9 as stated: for a tabular payload, get_dataset(id, filters) returns exactly
\* the rows that satisfy every per-column predicate of filters, in stored order
\* (a row satisfies no predicate on a column it does not have).
C9_RowsSatisfyingEveryPredicate ==
    \A d \in DOMAIN registered, es \in FilterDicts :
        registered[d].kind = "DataFrame" =>
            get_dataset(LoaderRepo, d, Some(es)) =
                Returned([registered[d] EXCEPT !.rows =
                    SelectSeq(@, LAMBDA row : \A i \in DOMAIN es :
                        es[i][1] \in DOMAIN row /\ Satisfies(row, es[i]))])

\* C9 amended: for a tabular payload, get_dataset(id, filters) returns exactly
\* the rows that satisfy the predicate of every filter entry whose column is a
\* column of the payload (entries on other columns are ignored), in stored order;
\* the result is the intersection of the single-entry results and is the same
\* for the entries in reverse order.
C9_RowsSatisfyingPresentColumnPredicates ==
    \A d \in DOMAIN registered, es \in FilterDicts :
        registered[d].kind = "DataFrame" =>
            LET stored == registered[d]
                result == get_dataset(LoaderRepo, d, Some(es))
                single(i) == get_dataset(LoaderRepo, d, Some(<<es[i]>>)).value.rows
            IN  /\ result = Returned([stored EXCEPT !.rows =
                        SelectSeq(@, LAMBDA row : \A i \in DOMAIN es :
                            es[i][1] \in stored.columns => Satisfies(row, es[i]))])
                /\ result.value.rows =
                        SelectSeq(stored.rows, LAMBDA row : \A i \in DOMAIN es : row \in Range(single(i)))
                /\ result = get_dataset(LoaderRepo, d, Some(Reverse(es)))

\* C9 witness: a read with two filter entries, a list and a scalar, that kept
\* some rows of the stored frame and dropped others.
C9_Witness ==
    /\ ret.op = "get_dataset"
    /\ ret.filters # None
    /\ Len(ret.filters[1]) = 2
    /\ ret.exc = ""
    /\ ret.value.rows # <<>>
    /\ Len(ret.value.rows) < Len(registered[ret.dataset_id].rows)

---------------------------------------------------------------------------
(* DataValidator.  An object is a dict from keys to values, a value being known
   by its JSON type; a schema is the draft-07 subset [type, required, properties]:
   the type of the instance, the keys that must be present and the type each
   listed key must have.  An element of a collection is an object or a value
   that is not a mapping (a number). *)

MaxObjects == 2
MaxErrorsArg == 2

ObjectKeys == {"id", "station_id"}
JsonTypes == {"string", "number"}
Objects == UNION {[keys -> JsonTypes] : keys \in SUBSET ObjectKeys}

\* an element of the collection that is not a dict: a number
NumberElement == [nonmapping |-> "number"]
IsMapping(obj) == "nonmapping" \notin DOMAIN obj
Elements == Objects \cup {NumberElement}

StationSchema == [type |-> "object", required |-> {"station_id"},
                  properties |-> [id |-> "string", station_id |-> "string"]]

\* self.schemas after _load_schemas: nothing (no schema directory) or the station schema
SchemaLoads == {EmptyDict, [station_schema |-> StationSchema]}
SchemaNames == {"station_schema", "session_schema"}

\* the order in which keys are reported
KeyOrder == <<"id", "station_id">>

\* list(Draft7Validator(schema).iter_errors(obj)): one error per required key
\* that is missing, one per present key of the wrong type; "required" and
\* "properties" say nothing of an instance that is not an object, "type" does
iter_errors(schema, obj) ==
    IF ~IsMapping(obj)
    THEN IF schema.type = "object"
         THEN <<[path |-> "root", message |-> "type", key |-> "object"]>>
         ELSE <<>>
    ELSE
    LET missing == SelectSeq(KeyOrder, LAMBDA k : k \in schema.required /\ k \notin DOMAIN obj)
        mistyped == SelectSeq(KeyOrder, LAMBDA k : k \in DOMAIN obj /\ k \in DOMAIN schema.properties
                                                   /\ obj[k] # schema.properties[k])
    IN  [i \in DOMAIN missing |-> [path |-> "root", message |-> "required", key |-> missing[i]]]
        \o [i \in DOMAIN mistyped |-> [path |-> mistyped[i], message |-> "type", key |-> mistyped[i]]]

\* (is_valid, error_messages)
validate_object(schemas, obj, schema_name) ==
    IF schema_name \notin DOMAIN schemas
    THEN <<FALSE, <<[path |-> "", message |-> "Schema not found", key |-> schema_name]>>>>
    ELSE LET errors == iter_errors(schemas[schema_name], obj)
         IN  IF errors = <<>> THEN <<TRUE, <<>>>> ELSE <<FALSE, errors>>

\* for id_field in ['id', 'station_id', 'session_id', 'forecast_id']: first present key
IdFields == <<"id", "station_id", "session_id", "forecast_id">>

\* an identifier lookup that keeps the last present key instead of the first
identifier_of_last_present(obj) ==
    LET present == SelectSeq(IdFields, LAMBDA k : k \in DOMAIN obj)
    IN  IF present = <<>> THEN None ELSE Some(obj[present[Len(present)]])

identifier_of(obj) ==
    LET present == SelectSeq(IdFields, LAMBDA k : k \in DOMAIN obj)
    IN  IF present = <<>> THEN None ELSE Some(obj[present[1]])

\* valid_count / total_objects if total_objects > 0 else 0, as the fraction num/den
success_rate(valid_count, total_objects) ==
    IF total_objects > 0 THEN [num |-> valid_count, den |-> total_objects] ELSE [num |-> 0, den |-> 1]

\* the loop over enumerate(data_list) from the i-th object on (i counts from 1;
\* the index reported is i - 1).  "id_field in obj" raises TypeError on a number;
\* nothing catches it, so the loop ends there with the exception.
RECURSIVE validate_loop(_, _, _, _, _, _)
validate_loop(schemas, data_list, schema_name, max_errors, i, acc) ==
    IF i > Len(data_list) THEN acc
    ELSE LET res == validate_object(schemas, data_list[i], schema_name)
         IN  IF res[1]
             THEN validate_loop(schemas, data_list, schema_name, max_errors, i + 1,
                                [acc EXCEPT !.valid_count = @ + 1])
             ELSE IF Len(acc.error_examples) < max_errors /\ ~IsMapping(data_list[i])
             THEN [acc EXCEPT !.invalid_count = @ + 1, !.exc = "TypeError"]
             ELSE validate_loop(schemas, data_list, schema_name, max_errors, i + 1,
                                [acc EXCEPT !.invalid_count = @ + 1,
                                            !.error_examples =
                                                IF Len(@) < max_errors
                                                THEN Append(@, [index |-> i - 1,
                                                                identifier |-> identifier_of(data_list[i]),
                                                                errors |-> res[2]])
                                                ELSE @])

\* a report whose has_errors tells whether examples were collected
validation_report_examples_flag(total_objects, acc) ==
    [total_objects |-> total_objects,
     valid_count |-> acc.valid_count,
     invalid_count |-> acc.invalid_count,
     validation_success_rate |-> success_rate(acc.valid_count, total_objects),
     has_errors |-> acc.error_examples # <<>>,
     error_examples |-> acc.error_examples]

\* the report built from the loop's counters
validation_report(total_objects, acc) ==
    [total_objects |-> total_objects,
     valid_count |-> acc.valid_count,
     invalid_count |-> acc.invalid_count,
     validation_success_rate |-> success_rate(acc.valid_count, total_objects),
     has_errors |-> acc.invalid_count > 0,
     error_examples |-> acc.error_examples]

\* the counters before the loop
NoCounts == [valid_count |-> 0, invalid_count |-> 0, error_examples |-> <<>>, exc |-> ""]

\* what validate_data returns (or raises) once the loop has ended
validate_result(total_objects, acc) ==
    IF acc.exc # "" THEN Raised(acc.exc)
    ELSE Returned(<<acc.invalid_count = 0, validation_report(total_objects, acc)>>)

\* a loop that starts at the second object
validate_data_skip_first(schemas, data, schema_name, max_errors) ==
    IF schema_name \notin DOMAIN schemas
    THEN Returned(<<FALSE, [error |-> "Schema not found"]>>)
    ELSE validate_result(Len(data), validate_loop(schemas, data, schema_name, max_errors, 2, NoCounts))

\* validate_data without its "schema_name not in self.schemas" test: the loop
\* runs and validate_object reports each object against the missing schema
validate_data_no_schema_check(schemas, data, schema_name, max_errors) ==
    validate_result(Len(data), validate_loop(schemas, data, schema_name, max_errors, 1, NoCounts))

\* (is_valid, validation_report), or the exception that escapes
validate_data(schemas, data, schema_name, max_errors) ==
    IF schema_name \notin DOMAIN schemas
    THEN Returned(<<FALSE, [error |-> "Schema not found"]>>)
    ELSE validate_result(Len(data), validate_loop(schemas, data, schema_name, max_errors, 1, NoCounts))

ValidateData(schema_name, max_errors) ==
    /\ LET res == validate_data(vschemas, vdata, schema_name, max_errors)
       IN  ret' = IF res.exc = ""
                  THEN [op |-> "validate_data", schema_name |-> schema_name, max_errors |-> max_errors,
                        exc |-> "", ok |-> res.value[1], report |-> res.value[2]]
                  ELSE [op |-> "validate_data", schema_name |-> schema_name, max_errors |-> max_errors,
                        exc |-> res.exc]
    /\ UNCHANGED <<repoVars, validatorVars, loaderVars, adapterVars, readerVars>>

---------------------------------------------------------------------------
(* SpecValidate: a validator with its schemas loaded (or not) and a collection of
   at most MaxObjects objects, validated under every schema name and max_errors. *)

InitValidate ==
    /\ InitNoRepo
    /\ InitNoFiles
    /\ InitAdapterIdle
    /\ vschemas \in SchemaLoads
    /\ vdata \in SeqsUpTo(Elements, MaxObjects)

NextValidate ==
    \E schema_name \in SchemaNames, max_errors \in 0..MaxErrorsArg : ValidateData(schema_name, max_errors)

SpecValidate == InitValidate /\ [][NextValidate]_vars

\* obj satisfies schema: every required key is present and every present key
\* that the schema lists has the listed type
Conforms(obj, schema) ==
    /\ schema.type = "object" => IsMapping(obj)
    /\ schema.required \subseteq DOMAIN obj
    /\ \A k \in DOMAIN obj \cap DOMAIN schema.properties : obj[k] = schema.properties[k]

\* C10: validate_data over a collection of N >= 1 objects that all satisfy the
\* named, loaded schema returns (True, report) with total_objects = N,
\* valid_count = N, invalid_count = 0, validation_success_rate = 1.0,
\* has_errors false and no error examples.
C10_AllValidReport ==
    ( /\ ret.op = "validate_data"
      /\ ret.schema_name \in DOMAIN vschemas
      /\ Len(vdata) >= 1
      /\ \A i \in DOMAIN vdata : Conforms(vdata[i], vschemas[ret.schema_name]) )
    => /\ ret.ok = TRUE
       /\ ret.report.total_objects = Len(vdata)
       /\ ret.report.valid_count = Len(vdata)
       /\ ret.report.invalid_count = 0
       /\ ret.report.validation_success_rate.num = ret.report.validation_success_rate.den
       /\ ret.report.has_errors = FALSE
       /\ ret.report.error_examples = <<>>

\* C10 witness: a validated collection of two different objects, both satisfying
\* the schema, reported valid.
C10_Witness ==
    /\ ret.op = "validate_data"
    /\ ret.schema_name \in DOMAIN vschemas
    /\ Len(vdata) >= 2
    /\ vdata[1] # vdata[2]
    /\ \A i \in DOMAIN vdata : Conforms(vdata[i], vschemas[ret.schema_name])
    /\ ret.ok = TRUE
    /\ ret.report.valid_count = Len(vdata)

---------------------------------------------------------------------------
(* C11..C13: the counters, the examples and the failure signals of validate_data. *)

\* the validated collection holds dicts only
AllMappings == \A i \in DOMAIN vdata : IsMapping(vdata[i])

\* the positions (from 1) of the objects of vdata that violate schema, ascending
InvalidPositions(schema) ==
    SelectSeq([i \in DOMAIN vdata |-> i], LAMBDA i : ~Conforms(vdata[i], schema))

\* the first key of IdFields that obj has, as a set of at most one key
FirstIdField(obj) ==
    {IdFields[j] : j \in {j \in DOMAIN IdFields :
                              /\ IdFields[j] \in DOMAIN obj
                              /\ \A l \in 1..(j - 1) : IdFields[l] \notin DOMAIN obj}}

Min(a, b) == IF a <= b THEN a ELSE b

\* C11: validate_data over N objects of which exactly k violate the loaded
\* schema returns invalid_count = k and min(k, max_errors) error examples: the
\* first min(k, max_errors) invalid objects in collection order, each with its
\* zero-based index and the value of the first key it has among id, station_id,
\* session_id, forecast_id (no identifier when it has none of them).
C11_InvalidCountAndExamples ==
    ( /\ ret.op = "validate_data"
      /\ ret.schema_name \in DOMAIN vschemas
      /\ AllMappings )
    => LET invalid == InvalidPositions(vschemas[ret.schema_name])
           k == Len(invalid)
           examples == ret.report.error_examples
       IN  /\ ret.exc = ""
           /\ ret.report.invalid_count = k
           /\ ret.report.valid_count = Len(vdata) - k
           /\ ret.ok = (k = 0)
           /\ Len(examples) = Min(k, ret.max_errors)
           /\ \A j \in DOMAIN examples :
                 LET obj == vdata[invalid[j]]
                 IN  /\ examples[j].index = invalid[j] - 1
                     /\ examples[j].errors # <<>>
                     /\ examples[j].identifier =
                            IF FirstIdField(obj) = {} THEN None
                            ELSE Some(obj[CHOOSE f \in FirstIdField(obj) : TRUE])

\* C11 witness: two invalid objects and max_errors = 1: invalid_count is 2 and the
\* single example is the first of them, which has both id and station_id with
\* different values and is identified by its id.
C11_Witness ==
    /\ ret.op = "validate_data"
    /\ ret.schema_name \in DOMAIN vschemas
    /\ AllMappings
    /\ ret.max_errors = 1
    /\ Len(InvalidPositions(vschemas[ret.schema_name])) = 2
    /\ ret.report.invalid_count = 2
    /\ Len(ret.report.error_examples) = 1
    /\ DOMAIN vdata[1] = {"id", "station_id"}
    /\ vdata[1]["id"] # vdata[1]["station_id"]
    /\ ret.report.error_examples[1].identifier = Some(vdata[1]["id"])

\* C12: validation never raises: whatever the collection holds, an element that
\* is not a mapping included, validate_data returns normally and counts every
\* element that does not satisfy the schema as invalid.
C12_ValidationNeverRaises ==
    ( /\ ret.op = "validate_data"
      /\ ret.schema_name \in DOMAIN vschemas )
    => /\ ret.exc = ""
       /\ ret.report.invalid_count = Len(InvalidPositions(vschemas[ret.schema_name]))

\* the ordinary report of validating data against the loaded station schema
OrdinaryResult(data, max_errors) ==
    validate_data([station_schema |-> StationSchema], data, "station_schema", max_errors)

\* C13: validate_data under a schema name that was never loaded returns a result
\* of its own: not valid, a report holding only an error, different from the
\* result of validating the empty collection and from the result of validating
\* the same collection against a loaded schema, under every max_errors.
C13_UnknownSchemaIsDistinct ==
    ( /\ ret.op = "validate_data"
      /\ ret.schema_name \notin DOMAIN vschemas )
    => /\ ret.exc = ""
       /\ ret.ok = FALSE
       /\ DOMAIN ret.report = {"error"}
       /\ \A data \in {<<>>, vdata}, max_errors \in 0..MaxErrorsArg :
             LET res == OrdinaryResult(data, max_errors)
             IN  res.exc = "" => /\ res.value # <<ret.ok, ret.report>>
                                 /\ "error" \notin DOMAIN res.value[2]
                                 /\ "total_objects" \in DOMAIN res.value[2]

\* C13 witness: the station schema is loaded, the collection is empty and the
\* name validated under is one that was not loaded.
C13_Witness ==
    /\ ret.op = "validate_data"
    /\ vschemas # EmptyDict
    /\ ret.schema_name \notin DOMAIN vschemas
    /\ vdata = <<>>
    /\ ret.ok = FALSE
    /\ "error" \in DOMAIN ret.report

---------------------------------------------------------------------------
(* DataLoader.  A file under the data root is [dir, words, ext, content]: the
   subdirectory it lies in ("" for the data root itself), the words its name
   contains, its extension, and what the adapter's transform makes of it.  A
   glob pattern is [dir, word, ext]: "*word*.ext" in dir, "*.ext" when word is
   "".  A raw row is a dict; the adapter's required-field check keeps the rows
   that have station_id. *)

MaxFiles == 2

Pattern(dir, word, ext) == [dir |-> dir, word |-> word, ext |-> ext]

\* the glob patterns of load_stations, load_sessions and load_forecasts, in order
station_patterns ==
    <<Pattern("", "stations", "csv"), Pattern("", "stations", "json"),
      Pattern("charging_stations", "", "csv"), Pattern("charging_stations", "", "json"),
      Pattern("stations", "", "csv"), Pattern("stations", "", "json")>>
session_patterns ==
    <<Pattern("", "session", "csv"), Pattern("", "session", "json"),
      Pattern("", "charging", "csv"), Pattern("", "usage", "csv"),
      Pattern("sessions", "", "csv"), Pattern("sessions", "", "json")>>
forecast_patterns ==
    <<Pattern("", "forecast", "csv"), Pattern("", "forecast", "json"),
      Pattern("forecasts", "", "csv"), Pattern("forecasts", "", "json")>>

\* what distinguishes the three load functions
StationEntity == [dataset_id |-> "stations", patterns |-> station_patterns,
                  schema |-> "station_schema.json", frame |-> TRUE]
SessionEntity == [dataset_id |-> "sessions", patterns |-> session_patterns,
                  schema |-> "session_schema.json", frame |-> TRUE]
ForecastEntity == [dataset_id |-> "forecasts", patterns |-> forecast_patterns,
                   schema |-> "forecast_schema.json", frame |-> FALSE]
Entities == {StationEntity, SessionEntity, ForecastEntity}
LoaderIds == {e.dataset_id : e \in Entities}

\* the paths of the model, in the order in which the file system lists them: a
\* name, with the directory, words and extension of it
FilePaths ==
    <<[name |-> "charging_sessions.csv", dir |-> "", words |-> {"charging", "session"}, ext |-> "csv"],
      [name |-> "forecast.json", dir |-> "", words |-> {"forecast"}, ext |-> "json"],
      [name |-> "sessions.csv", dir |-> "", words |-> {"session"}, ext |-> "csv"],
      [name |-> "stations.csv", dir |-> "", words |-> {"stations"}, ext |-> "csv"],
      [name |-> "stations/site.json", dir |-> "stations", words |-> {"site"}, ext |-> "json"]>>

\* raw rows: one with every required field, one without station_id
CompleteRow == [station_id |-> 1, city |-> 1]
IncompleteRow == [city |-> 2]

\* what a file holds: rows, or something the transform raises on
Unreadable == [raises |-> TRUE, rows |-> <<>>]
Readable(rows) == [raises |-> FALSE, rows |-> rows]
FileContents ==
    {Unreadable, Readable(<<IncompleteRow>>),
     Readable(<<CompleteRow, IncompleteRow>>), Readable(<<CompleteRow, CompleteRow>>)}

File(path, content) == [path |-> path, content |-> content]

\* the listing of the files at the positions present of FilePaths, holding contents
ListingOf(present, contents) ==
    LET positions == SelectSeq([i \in DOMAIN FilePaths |-> i], LAMBDA i : i \in present)
    IN  [k \in DOMAIN positions |-> File(FilePaths[positions[k]], contents[positions[k]])]

\* the listings of the data root: at most MaxFiles of the paths, each with a content
Listings ==
    UNION {{ListingOf(present, contents) : contents \in [present -> FileContents]} :
           present \in {p \in SUBSET DOMAIN FilePaths : Cardinality(p) <= MaxFiles}}

\* fnmatch of a file against a pattern
Matches(file, pattern) ==
    /\ file.path.dir = pattern.dir
    /\ file.path.ext = pattern.ext
    /\ pattern.word = "" \/ pattern.word \in file.path.words

\* glob.glob(os.path.join(self.data_dir, ...))
glob(listing, pattern) == SelectSeq(listing, LAMBDA file : Matches(file, pattern))

\* the list built by the extend calls, from pattern i on
RECURSIVE discover(_, _, _)
discover(listing, patterns, i) ==
    IF i > Len(patterns) THEN <<>>
    ELSE glob(listing, patterns[i]) \o discover(listing, patterns, i + 1)

\* the required-field set the adapters of the loader model apply
LoaderRequired == {"station_id"}

\* adapter.transform_csv_to_standard / transform_json_to_standard of one file
transform_to_standard(file) ==
    IF file.content.raises THEN Raised("Exception")
    ELSE Returned(SelectSeq(file.content.rows, LAMBDA row : LoaderRequired \subseteq DOMAIN row))

\* the loop over the discovered files without its try/except: the first file
\* whose transform raises ends the loop with what was accumulated before it
RECURSIVE accumulate_no_try(_, _, _)
accumulate_no_try(files, i, all) ==
    IF i > Len(files) THEN all
    ELSE LET res == transform_to_standard(files[i])
         IN  IF res.exc # "" THEN all
             ELSE accumulate_no_try(files, i + 1, all \o res.value)

\* for file_path in files: try: all.extend(transform(file_path)) except Exception: print
RECURSIVE accumulate(_, _, _)
accumulate(files, i, all) ==
    IF i > Len(files) THEN all
    ELSE LET res == transform_to_standard(files[i])
         IN  IF res.exc # "" THEN accumulate(files, i + 1, all)
             ELSE accumulate(files, i + 1, all \o res.value)

\* the metadata dict of the register_dataset call
load_metadata(entity, files, records, now) ==
    [description |-> entity.dataset_id,
     source_files |-> [i \in DOMAIN files |-> files[i].path.name],
     record_count |-> Len(records),
     schema |-> entity.schema,
     last_updated |-> now]

\* pd.DataFrame(all_stations) / pd.DataFrame(all_sessions) / all_forecasts
load_payload(entity, records) == IF entity.frame THEN DataFrame(records) ELSE PlainList(records)

\* a load that registers whatever was accumulated, nothing included
load_register_always(entity, r, listing, now, raisers) ==
    LET files == discover(listing, entity.patterns, 1)
        records == accumulate(files, 1, <<>>)
    IN  IF files = <<>> THEN [repo |-> r, registrations |-> 0, calls |-> <<>>]
        ELSE LET res == register_dataset(r, entity.dataset_id, load_payload(entity, records),
                                         Some(load_metadata(entity, files, records, now)), now, raisers)
             IN  [repo |-> res.repo, registrations |-> 1, calls |-> res.calls]

\* load_stations / load_sessions / load_forecasts: the repository after the
\* call, the number of register_dataset calls made and the callbacks invoked
load(entity, r, listing, now, raisers) ==
    LET files == discover(listing, entity.patterns, 1)
        records == accumulate(files, 1, <<>>)
    IN  IF files = <<>> \/ records = <<>> THEN [repo |-> r, registrations |-> 0, calls |-> <<>>]
        ELSE LET res == register_dataset(r, entity.dataset_id, load_payload(entity, records),
                                         Some(load_metadata(entity, files, records, now)), now, raisers)
             IN  [repo |-> res.repo, registrations |-> 1, calls |-> res.calls]

Load(h, entity, now, raisers) ==
    /\ handles[h] # 0
    /\ LET res == load(entity, Repo(h), data_dir, now, raisers)
       IN  /\ heap' = [heap EXCEPT ![handles[h]] = res.repo]
           /\ ret' = [op |-> "load", dataset_id |-> entity.dataset_id, entity |-> entity,
                      registrations |-> res.registrations, calls |-> res.calls]
           /\ registered' = IF res.registrations = 0 THEN registered
                            ELSE DictSet(registered, entity.dataset_id,
                                         res.repo.datasets[entity.dataset_id])
    /\ UNCHANGED <<_instance, handles, subscribed, validatorVars, loaderVars, adapterVars, readerVars>>

LoadStations(h, now, raisers) == Load(h, StationEntity, now, raisers)
LoadSessions(h, now, raisers) == Load(h, SessionEntity, now, raisers)
LoadForecasts(h, now, raisers) == Load(h, ForecastEntity, now, raisers)

---------------------------------------------------------------------------
(* SpecLoader: a DataLoader over a data root holding at most MaxFiles files; a
   dashboard callback is subscribed to each of the three dataset ids; the three
   loads run in any order and any number of times; before the first of them
   registers anything a dashboard may register a dataset of its own under one
   of the ids. *)

LoaderCallback == 1

\* the repository after DataLoader() and subscribe(id, LoaderCallback) for each id
SubscribedRepo ==
    [_initialize EXCEPT !.subscriptions = [d \in LoaderIds |-> <<LoaderCallback>>]]

\* the dataset a dashboard registers, with metadata of its own
DashboardFrame == DataFrame(<<[c \in Columns |-> 2]>>)
DashboardMetadata == [description |-> "dashboard", record_count |-> 1]

InitLoader ==
    /\ InitNoReaders
    /\ _instance = 1
    /\ heap = DictSet(EmptyDict, 1, SubscribedRepo)
    /\ handles = [h \in Handles |-> IF h = "loader" THEN 1 ELSE 0]
    /\ registered = EmptyDict
    /\ subscribed = [d \in LoaderIds |-> <<LoaderCallback>>]
    /\ ret = NoCall
    /\ InitValidatorIdle
    /\ InitAdapterIdle
    /\ data_dir \in Listings

NextLoader ==
    \/ \E now \in Times : LoadStations("loader", now, {})
    \/ \E now \in Times : LoadSessions("loader", now, {})
    \/ \E now \in Times : LoadForecasts("loader", now, {})
    \/ \E d \in LoaderIds, now \in Times :
           /\ registered = EmptyDict
           /\ RegisterDataset("loader", d, DashboardFrame, Some(DashboardMetadata), now, {})

SpecLoader == InitLoader /\ [][NextLoader]_vars

---------------------------------------------------------------------------
(* Claims checked under SpecLoader *)

\* the number of rows of file that pass the required-field check, 0 when the
\* transform of the file raises
AcceptedRows(file) ==
    IF file.content.raises THEN 0
    ELSE Cardinality({j \in DOMAIN file.content.rows : LoaderRequired \subseteq DOMAIN file.content.rows[j]})

\* the positions in the listing of the files that entity's patterns discover
DiscoveredPositions(entity) ==
    {i \in DOMAIN data_dir : \E k \in DOMAIN entity.patterns : Matches(data_dir[i], entity.patterns[k])}

RECURSIVE SumAccepted(_)
SumAccepted(positions) ==
    IF positions = {} THEN 0
    ELSE LET i == CHOOSE i \in positions : TRUE
         IN  AcceptedRows(data_dir[i]) + SumAccepted(positions \ {i})

\* C14: after a load that discovered several files, the dataset registered under
\* the entity's id holds exactly the sum over the discovered files of the rows
\* that passed the required-field check (a valid rows of file A plus b - r of
\* file B); a file whose transform raises adds nothing and stops neither the
\* other files nor the registration.
C14_RegisteredCountIsSumOverFiles ==
    ret.op = "load" =>
        LET total == SumAccepted(DiscoveredPositions(ret.entity))
        IN  total > 0 =>
                /\ ret.registrations = 1
                /\ Len(LoaderRepo.datasets[ret.dataset_id].rows) = total

\* the discovered files hold at least one record
SomeRecord(entity) == SumAccepted(DiscoveredPositions(entity)) > 0

\* C15: a load calls register_dataset exactly once, under the entity's fixed id,
\* if and only if at least one record was accumulated; the metadata then has
\* record_count equal to the number of registered records and schema naming
\* the entity's schema.  When no file is found or every file or record fails
\* there is no registration, no subscriber is invoked and the repository,
\* with any dataset and metadata registered before under that id, is unchanged.
C15_RegisterOnceIffRecords ==
    [][ret'.op = "load" =>
           LET entity == ret'.entity
               id == entity.dataset_id
               before == heap[handles["loader"]]
               after == heap'[handles["loader"]]
           IN  /\ id \in LoaderIds
               /\ ret'.registrations = IF SomeRecord(entity) THEN 1 ELSE 0
               /\ SomeRecord(entity) =>
                      /\ after.metadata[id].record_count = Len(after.datasets[id].rows)
                      /\ after.datasets[id].rows # <<>>
                      /\ after.metadata[id].schema = entity.schema
                      /\ \A d \in LoaderIds \ {id} :
                             /\ d \in DOMAIN after.datasets <=> d \in DOMAIN before.datasets
                             /\ d \in DOMAIN before.datasets => after.datasets[d] = before.datasets[d]
                      /\ ret'.calls = <<callback(LoaderCallback, after.datasets[id], {})>>
               /\ ~SomeRecord(entity) =>
                      /\ after = before
                      /\ ret'.calls = <<>>
      ]_vars

\* C15 witness: a load that discovered files, of which none gave a record, made
\* no registration and invoked no subscriber; the dataset and the metadata
\* that a dashboard had registered under the id are still there.
C15_Witness ==
    /\ ret.op = "load"
    /\ DiscoveredPositions(ret.entity) # {}
    /\ ret.registrations = 0
    /\ ret.calls = <<>>
    /\ ret.dataset_id \in DOMAIN LoaderRepo.datasets
    /\ LoaderRepo.datasets[ret.dataset_id] = DashboardFrame
    /\ LoaderRepo.metadata[ret.dataset_id].description = "dashboard"

---------------------------------------------------------------------------
(* Adapters: date/time values.  A date/time string is a record: a parsable one
   has the wall-clock reading (in minutes) and the UTC offset (in minutes) it
   is written with, a malformed one only its text.  The instant a parsable
   string denotes is wall - offset. *)

TimeString(wall, offset) == [parsable |-> TRUE, wall |-> wall, offset |-> offset]
Malformed == [parsable |-> FALSE, text |-> "not a date"]

\* _format_datetime: pd.to_datetime(dt_value).strftime('%Y-%m-%dT%H:%M:%S.%fZ')
\* writes the wall-clock reading followed by the letter Z; the value itself is
\* returned when parsing fails
_format_datetime(dt_value) ==
    IF dt_value.parsable THEN TimeString(dt_value.wall, 0) ELSE dt_value

\* datetime.fromisoformat(text.replace('Z', '+00:00')) / pd.to_datetime(text):
\* the instant, in minutes; raises ValueError on a malformed string
fromisoformat(text) ==
    IF text.parsable THEN Returned(text.wall - text.offset) ELSE Raised("ValueError")

\* sorted(entries, key=lambda x: fromisoformat(x['timestamp'])): stable
\* insertion of entries[i..] into the sorted list done; every timestamp parses
RECURSIVE sort_by_timestamp(_, _, _)
sort_by_timestamp(entries, i, done) ==
    IF i > Len(entries) THEN done
    ELSE LET key(e) == fromisoformat(e.timestamp).value
             before == SelectSeq(done, LAMBDA e : key(e) <= key(entries[i]))
             after == SelectSeq(done, LAMBDA e : key(e) > key(entries[i]))
         IN  sort_by_timestamp(entries, i + 1, before \o <<entries[i]>> \o after)

\* sorted(...): the key function is evaluated on every entry first, and a
\* malformed timestamp makes it raise ValueError
sorted_by_timestamp(entries) ==
    IF \E i \in DOMAIN entries : ~entries[i].timestamp.parsable THEN Raised("ValueError")
    ELSE Returned(sort_by_timestamp(entries, 1, <<>>))

\* identifiers: one given in the input, the composite of station id and
\* timestamp string, a uuid4
GivenId(text) == [kind |-> "given", text |-> text]
CompositeId(station_id, timestamp) == [kind |-> "composite", station_id |-> station_id, timestamp |-> timestamp]
RandomId(uuid) == [kind |-> "uuid4", uuid |-> uuid]

\* self.schema.get('required', []) if self.schema else the fallback list
required_fields(schema_file, fallback) ==
    IF schema_file = None THEN fallback
    ELSE IF "required" \in DOMAIN schema_file[1] THEN schema_file[1].required ELSE {}

---------------------------------------------------------------------------
(* SessionAdapter *)

\* the keys of _get_default_mapping whose column name equals the schema key, in
\* the order of the mapping
SessionMappedKeys ==
    <<"session_id", "station_id", "charger_id", "start_time", "end_time",
      "duration_minutes", "energy_delivered_kwh">>
SessionTimeKeys == {"start_time", "end_time", "created_at", "updated_at"}

SessionFallbackRequired ==
    {"session_id", "station_id", "charger_id", "start_time", "end_time", "energy_delivered_kwh"}

\* the loop over mapping.items() from key i on: a present value is copied, a
\* date-time field through _format_datetime (float() of a number is the number)
RECURSIVE session_map_basic(_, _, _)
session_map_basic(data, i, session) ==
    IF i > Len(SessionMappedKeys) THEN session
    ELSE LET key == SessionMappedKeys[i]
         IN  IF key \in DOMAIN data
             THEN session_map_basic(data, i + 1,
                      DictSet(session, key,
                              IF key \in SessionTimeKeys THEN _format_datetime(data[key]) ELSE data[key]))
             ELSE session_map_basic(data, i + 1, session)

\* "Calculate duration if not present but start and end times are available"
session_duration(session) ==
    IF "duration_minutes" \notin DOMAIN session /\ "start_time" \in DOMAIN session
       /\ "end_time" \in DOMAIN session
    THEN LET start == fromisoformat(session["start_time"])
             end == fromisoformat(session["end_time"])
         IN  IF start.exc = "" /\ end.exc = ""
             THEN DictSet(session, "duration_minutes", end.value - start.value)
             ELSE session
    ELSE session

\* the energy_<n>_time and power_<n>_time columns of the model
EnergyTimeKeys == <<"energy_1_time", "energy_2_time">>
PowerTimeKeys == <<"power_1_time", "power_2_time">>
SocTimeKeys == <<"soc_1_time">>
ValueKey(key) ==
    CASE key = "energy_1_time" -> "energy_1_value"
      [] key = "energy_2_time" -> "energy_2_value"
      [] key = "power_1_time" -> "power_1_value"
      [] key = "power_2_time" -> "power_2_value"
      [] key = "soc_1_time" -> "soc_1_value"

\* the loop over energy_keys from key i on
RECURSIVE energy_samples(_, _, _)
energy_samples(row, i, measurements) ==
    IF i > Len(EnergyTimeKeys) THEN measurements
    ELSE LET key == EnergyTimeKeys[i]
         IN  IF key \in DOMAIN row /\ ValueKey(key) \in DOMAIN row
             THEN energy_samples(row, i + 1,
                      Append(measurements, [timestamp |-> _format_datetime(row[key]),
                                            energy_kwh |-> row[ValueKey(key)]]))
             ELSE energy_samples(row, i + 1, measurements)

\* the loop over power_keys from key i on: the sample joins the first
\* measurement with its timestamp, or is appended as a measurement of its own
RECURSIVE power_samples(_, _, _)
power_samples(row, i, measurements) ==
    IF i > Len(PowerTimeKeys) THEN measurements
    ELSE LET key == PowerTimeKeys[i]
         IN  IF key \in DOMAIN row /\ ValueKey(key) \in DOMAIN row
             THEN LET timestamp == _format_datetime(row[key])
                      found == {j \in DOMAIN measurements : measurements[j].timestamp = timestamp}
                  IN  IF found # {}
                      THEN LET j == CHOOSE j \in found : \A l \in found : j <= l
                           IN  power_samples(row, i + 1,
                                   [measurements EXCEPT ![j] = DictSet(@, "power_kw", row[ValueKey(key)])])
                      ELSE power_samples(row, i + 1,
                               Append(measurements, [timestamp |-> timestamp, power_kw |-> row[ValueKey(key)]]))
             ELSE power_samples(row, i + 1, measurements)

\* the loop over soc_keys from key i on
RECURSIVE soc_samples(_, _, _)
soc_samples(row, i, estimates) ==
    IF i > Len(SocTimeKeys) THEN estimates
    ELSE LET key == SocTimeKeys[i]
         IN  IF key \in DOMAIN row /\ ValueKey(key) \in DOMAIN row
             THEN soc_samples(row, i + 1,
                      Append(estimates, [timestamp |-> _format_datetime(row[key]),
                                         soc_percent |-> row[ValueKey(key)]]))
             ELSE soc_samples(row, i + 1, estimates)

\* "Ensure session ID is present"
session_ensure_id(session, uuid) ==
    IF "session_id" \in DOMAIN session THEN session
    ELSE IF "station_id" \in DOMAIN session /\ "start_time" \in DOMAIN session
    THEN DictSet(session, "session_id", CompositeId(session["station_id"], session["start_time"]))
    ELSE DictSet(session, "session_id", RandomId(uuid))

\* "Ensure required fields are present": the session, or None
session_check_required(session, schema_file) ==
    IF required_fields(schema_file, SessionFallbackRequired) \subseteq DOMAIN session
    THEN Some(session) ELSE None

\* SessionAdapter._transform_row: Returned(the session or None), or the exception
\* that sorted raises.  The rows of the model have no vehicle or weather column.
session_transform_row(row, schema_file, uuid) ==
    LET s1 == session_duration(session_map_basic(row, 1, EmptyDict))
        measurements == power_samples(row, 1, energy_samples(row, 1, <<>>))
        sorted_measurements == sorted_by_timestamp(measurements)
        estimates == soc_samples(row, 1, <<>>)
        sorted_estimates == sorted_by_timestamp(estimates)
    IN  IF measurements # <<>> /\ sorted_measurements.exc # "" THEN Raised(sorted_measurements.exc)
        ELSE IF estimates # <<>> /\ sorted_estimates.exc # "" THEN Raised(sorted_estimates.exc)
        ELSE LET s2 == IF measurements # <<>>
                       THEN DictSet(s1, "energy_measurements", sorted_measurements.value) ELSE s1
                 s3 == IF estimates # <<>>
                       THEN DictSet(s2, "charging_curves", [soc_estimates |-> sorted_estimates.value])
                       ELSE s2
             IN  Returned(session_check_required(session_ensure_id(s3, uuid), schema_file))

\* the entries of data['energy_data'] that have a timestamp and a power or an energy
energy_data_entries(points) ==
    LET usable == SelectSeq(points, LAMBDA point : "timestamp" \in DOMAIN point
                                                   /\ ("power" \in DOMAIN point \/ "energy" \in DOMAIN point))
        entry(point) ==
            LET e0 == [timestamp |-> _format_datetime(point.timestamp)]
                e1 == IF "power" \in DOMAIN point THEN DictSet(e0, "power_kw", point.power) ELSE e0
            IN  IF "energy" \in DOMAIN point THEN DictSet(e1, "energy_kwh", point.energy) ELSE e1
    IN  [i \in DOMAIN usable |-> entry(usable[i])]

\* the entries of data['soc_data'] that have a timestamp and a value
soc_data_entries(points) ==
    LET usable == SelectSeq(points, LAMBDA point : "timestamp" \in DOMAIN point /\ "value" \in DOMAIN point)
    IN  [i \in DOMAIN usable |-> [timestamp |-> _format_datetime(usable[i].timestamp),
                                  soc_percent |-> usable[i].value]]

\* SessionAdapter._transform_dict: no duration is calculated and nothing is sorted
session_transform_dict(data, schema_file, uuid) ==
    LET s1 == session_map_basic(data, 1, EmptyDict)
        s2 == IF "energy_data" \in DOMAIN data
              THEN DictSet(s1, "energy_measurements", energy_data_entries(data["energy_data"])) ELSE s1
        s3 == IF "soc_data" \in DOMAIN data
              THEN DictSet(s2, "charging_curves", [soc_estimates |-> soc_data_entries(data["soc_data"])])
              ELSE s2
    IN  Returned(session_check_required(session_ensure_id(s3, uuid), schema_file))

\* the loop of transform_df_to_standard / transform_json_to_standard over the
\* records from i on: a record that is None is left out, an exception ends
\* the transform.  form is "row" (CSV, DataFrame) or "dict" (JSON)
RECURSIVE session_transform(_, _, _, _, _, _)
session_transform(form, records, schema_file, uuid, i, out) ==
    IF i > Len(records) THEN Returned(out)
    ELSE LET res == IF form = "row" THEN session_transform_row(records[i], schema_file, uuid)
                    ELSE session_transform_dict(records[i], schema_file, uuid)
         IN  IF res.exc # "" THEN Raised(res.exc)
             ELSE session_transform(form, records, schema_file, uuid, i + 1,
                                    IF res.value = None THEN out ELSE Append(out, res.value[1]))

\* transform_csv_to_standard / transform_df_to_standard / transform_json_to_standard
\* of the input; uuid is what uuid.uuid4() returns during the call
TransformSessions(uuid) ==
    /\ raw # <<>>
    /\ raw.entity = "session"
    /\ LET res == session_transform(raw.form, raw.records, adapter_schema, uuid, 1, <<>>)
       IN  ret' = [op |-> "session_transform", form |-> raw.form, exc |-> res.exc, value |-> res.value]
    /\ UNCHANGED <<repoVars, validatorVars, loaderVars, adapterVars, readerVars>>

---------------------------------------------------------------------------
(* SpecSession: a SessionAdapter, its schema loaded or not, and an input of one
   record, a CSV/DataFrame row or a JSON object, transformed under every uuid. *)

\* {key: value} when the optional value is there, {} when it is None
OptField(key, opt) == IF opt = None THEN EmptyDict ELSE key :> opt[1]
Optional(S) == {None} \cup {Some(v) : v \in S}

\* start 00:00 UTC, the same instant written with offset +02:00, or malformed;
\* end 00:30 UTC or malformed
SessionStartTimes == {TimeString(0, 0), TimeString(120, 120), Malformed}
SessionEndTimes == {TimeString(30, 0), Malformed}
SampleTimes == {TimeString(30, 0), Malformed}

\* the fields every session input form has
SessionBasics ==
    {OptField("session_id", session_id) @@ OptField("station_id", station_id)
       @@ OptField("start_time", start_time) @@ OptField("end_time", end_time)
       @@ OptField("duration_minutes", duration_minutes)
       @@ (IF rest THEN [charger_id |-> "C1", energy_delivered_kwh |-> 5] ELSE EmptyDict) :
     session_id \in Optional({GivenId("S1")}), station_id \in Optional({"A"}),
     start_time \in Optional(SessionStartTimes), end_time \in Optional(SessionEndTimes),
     duration_minutes \in Optional({45}), rest \in BOOLEAN}

\* a row: the basics and energy, power and SoC sample columns
SessionRows ==
    {basics @@ (IF energy = None THEN EmptyDict
                ELSE [energy_1_time |-> energy[1], energy_1_value |-> 7])
            @@ (IF power = None THEN EmptyDict
                ELSE [power_1_time |-> power[1], power_1_value |-> 11])
            @@ (IF soc = None THEN EmptyDict
                ELSE [soc_1_time |-> soc[1], soc_1_value |-> 80]) :
     basics \in SessionBasics, energy \in Optional(SampleTimes),
     power \in Optional({TimeString(30, 0)}), soc \in Optional({Malformed})}

\* a JSON object: the basics and an energy_data list
SessionDicts ==
    {basics @@ (IF energy = None THEN EmptyDict
                ELSE [energy_data |-> <<[timestamp |-> energy[1], energy |-> 7]>>]) :
     basics \in SessionBasics, energy \in Optional(SampleTimes)}

SessionInputs ==
    {[entity |-> "session", form |-> "row", records |-> <<row>>] : row \in SessionRows}
    \cup {[entity |-> "session", form |-> "dict", records |-> <<data>>] : data \in SessionDicts}

\* self.schema of the adapters of the model: not loaded, or a schema file with
\* a required array
SessionSchemaFile == [required |-> {"session_id", "station_id", "start_time"}]
Uuids == {1, 2}

InitSession ==
    /\ InitNoRepo
    /\ InitValidatorIdle
    /\ InitNoFiles
    /\ raw \in SessionInputs
    /\ adapter_schema \in Optional({SessionSchemaFile})

NextSession == \E uuid \in Uuids : TransformSessions(uuid)

SpecSession == InitSession /\ [][NextSession]_vars

---------------------------------------------------------------------------
(* Claims checked under SpecSession *)

\* the record of the input and, when the transform returned it, of the output
InputRecord == raw.records[1]
OutputRecord == ret.value[1]

\* C19: for a session input with parsable start_time and end_time and no
\* duration_minutes, the output record's duration_minutes is the time from the
\* start instant to the end instant in minutes; a duration_minutes of the input
\* is passed through unchanged; when a time is absent or unparsable the output
\* has no duration_minutes.
C19_DurationDerived ==
    ( /\ ret.op = "session_transform"
      /\ ret.exc = ""
      /\ ret.value # <<>> )
    => LET in == InputRecord
           out == OutputRecord
           parsable(key) == key \in DOMAIN in /\ in[key].parsable
       IN  IF "duration_minutes" \in DOMAIN in
           THEN "duration_minutes" \in DOMAIN out /\ out["duration_minutes"] = in["duration_minutes"]
           ELSE IF parsable("start_time") /\ parsable("end_time")
           THEN /\ "duration_minutes" \in DOMAIN out
                /\ out["duration_minutes"] = fromisoformat(in["end_time"]).value
                                                 - fromisoformat(in["start_time"]).value
           ELSE "duration_minutes" \notin DOMAIN out

\* C18: a timestamp that cannot be parsed (a start or end time, the time of a
\* measurement or of a SoC sample) never makes a transform raise and never
\* drops a record: the session transform returns, and an input record that has
\* every required field is in the output, with each unparsable start or end
\* time as it was in the input.
C18_MalformedTimesKept ==
    ret.op = "session_transform" =>
        /\ ret.exc = ""
        /\ LET in == InputRecord
               required == required_fields(adapter_schema, SessionFallbackRequired)
           IN  (required \ {"session_id"}) \subseteq DOMAIN in =>
                   /\ Len(ret.value) = 1
                   /\ \A key \in {"start_time", "end_time"} \cap DOMAIN in :
                          ~in[key].parsable => OutputRecord[key] = in[key]

---------------------------------------------------------------------------
(* ForecastAdapter *)

\* the fixed table from the most common delta, in minutes, to the resolution:
\* a name of the table, or f"{int(minutes)}min" as [minutes |-> N]
resolution_label(minutes) ==
    CASE minutes = 15 -> "15min"
      [] minutes = 30 -> "30min"
      [] minutes = 60 -> "1hour"
      [] minutes = 180 -> "3hour"
      [] minutes = 360 -> "6hour"
      [] minutes = 720 -> "12hour"
      [] minutes = 1440 -> "1day"
      [] OTHER -> "Nmin"

Resolution(minutes) == [label |-> resolution_label(minutes), minutes |-> minutes]

\* sorted(timestamps) on instants: insertion of instants[i..] into done
RECURSIVE sort_instants(_, _, _)
sort_instants(instants, i, done) ==
    IF i > Len(instants) THEN done
    ELSE sort_instants(instants, i + 1,
                       SelectSeq(done, LAMBDA t : t <= instants[i]) \o <<instants[i]>>
                           \o SelectSeq(done, LAMBDA t : t > instants[i]))

\* the deltas between consecutive timestamps
consecutive_diffs(sorted) == [i \in 1..(Len(sorted) - 1) |-> sorted[i + 1] - sorted[i]]

\* pd.Series(diffs).value_counts().idxmax(): the most frequent delta, the one met
\* first among equally frequent ones
most_common_diff(diffs) ==
    LET best == CHOOSE i \in DOMAIN diffs :
                    /\ \A j \in DOMAIN diffs : Count(diffs, diffs[j]) <= Count(diffs, diffs[i])
                    /\ \A j \in 1..(i - 1) : Count(diffs, diffs[j]) < Count(diffs, diffs[i])
    IN  diffs[best]

\* a resolution computed on the timestamps in input order, without sorting them
infer_resolution_unsorted(instants) ==
    IF Len(instants) > 1
    THEN Some(Resolution(most_common_diff(consecutive_diffs(instants))))
    ELSE None

\* "Try to determine the resolution" (the same code in _transform_time_series_df,
\* _transform_row and _transform_dict): None when there are fewer than two timestamps
infer_resolution(instants) ==
    IF Len(instants) > 1
    THEN Some(Resolution(most_common_diff(consecutive_diffs(sort_instants(instants, 1, <<>>)))))
    ELSE None

\* the instants of parsed timestamps
Instants(timestamps) == [i \in DOMAIN timestamps |-> fromisoformat(timestamps[i]).value]

\* min(timestamps) / max(timestamps): the first one with the least / greatest instant
SeqMin(timestamps) ==
    timestamps[CHOOSE i \in DOMAIN timestamps :
                   /\ \A j \in DOMAIN timestamps : Instants(timestamps)[i] <= Instants(timestamps)[j]
                   /\ \A j \in 1..(i - 1) : Instants(timestamps)[j] # Instants(timestamps)[i]]
SeqMax(timestamps) ==
    timestamps[CHOOSE i \in DOMAIN timestamps :
                   /\ \A j \in DOMAIN timestamps : Instants(timestamps)[j] <= Instants(timestamps)[i]
                   /\ \A j \in 1..(i - 1) : Instants(timestamps)[j] # Instants(timestamps)[i]]

\* the prediction_horizon dict of parsed timestamps (at least one)
prediction_horizon(timestamps) ==
    LET horizon == [start_time |-> _format_datetime(SeqMin(timestamps)),
                    end_time |-> _format_datetime(SeqMax(timestamps))]
        resolution == infer_resolution(Instants(timestamps))
    IN  IF resolution = None THEN horizon ELSE DictSet(horizon, "resolution", resolution[1])

\* the keys of _get_default_mapping that the inputs of the model can have: the
\* schema key and the column it is read from
ForecastMapping ==
    <<[schema_key |-> "forecast_id", data_key |-> "forecast_id"],
      [schema_key |-> "station_id", data_key |-> "station_id"],
      [schema_key |-> "forecast_timestamp", data_key |-> "creation_timestamp"],
      [schema_key |-> "model_version", data_key |-> "model_version"]>>
ForecastTimeKeys == {"forecast_timestamp", "last_updated"}

ForecastFallbackRequired == {"forecast_id", "station_id", "forecast_timestamp", "forecasted_values"}

\* the loop over mapping.items() from entry i on
RECURSIVE forecast_map_basic(_, _, _)
forecast_map_basic(data, i, forecast) ==
    IF i > Len(ForecastMapping) THEN forecast
    ELSE LET entry == ForecastMapping[i]
         IN  IF entry.data_key \in DOMAIN data
             THEN forecast_map_basic(data, i + 1,
                      DictSet(forecast, entry.schema_key,
                              IF entry.schema_key \in ForecastTimeKeys
                              THEN _format_datetime(data[entry.data_key]) ELSE data[entry.data_key]))
             ELSE forecast_map_basic(data, i + 1, forecast)

\* one entry of forecasted_values per point of a time series
value_dicts(points) ==
    [i \in DOMAIN points |-> [timestamp |-> _format_datetime(points[i].timestamp),
                              predicted_demand_kwh |-> points[i].predicted_value]]

\* [pd.to_datetime(v['timestamp'].replace('Z', '+00:00')) for v in values]:
\* the parsed timestamps, or ValueError at the first one that does not parse
parse_timestamps(values) ==
    IF \E i \in DOMAIN values : ~values[i].timestamp.parsable THEN Raised("ValueError")
    ELSE Returned([i \in DOMAIN values |-> values[i].timestamp])

\* "Ensure forecast ID is present"
forecast_ensure_id(forecast, uuid) ==
    IF "forecast_id" \in DOMAIN forecast THEN forecast
    ELSE IF "station_id" \in DOMAIN forecast /\ "forecast_timestamp" \in DOMAIN forecast
    THEN DictSet(forecast, "forecast_id",
                 CompositeId(forecast["station_id"], forecast["forecast_timestamp"]))
    ELSE DictSet(forecast, "forecast_id", RandomId(uuid))

forecast_check_required(forecast, schema_file) ==
    IF required_fields(schema_file, ForecastFallbackRequired) \subseteq DOMAIN forecast
    THEN Some(forecast) ELSE None

\* the try block that loads the file a row refers to: an unreadable file or a
\* timestamp that does not parse ends the block, and what the block had
\* assigned by then stays
forecast_load_file(forecast, file) ==
    IF ~file.readable THEN forecast
    ELSE LET f1 == DictSet(forecast, "forecasted_values", value_dicts(file.rows))
             timestamps == parse_timestamps(f1["forecasted_values"])
         IN  IF f1["forecasted_values"] = <<>> \/ timestamps.exc # "" THEN f1
             ELSE DictSet(f1, "prediction_horizon", prediction_horizon(timestamps.value))

\* ForecastAdapter._transform_row
forecast_transform_row(row, schema_file, uuid) ==
    LET f1 == forecast_map_basic(row, 1, EmptyDict)
        f2 == IF "forecast_file" \in DOMAIN row THEN forecast_load_file(f1, row["forecast_file"]) ELSE f1
    IN  Returned(forecast_check_required(forecast_ensure_id(f2, uuid), schema_file))

\* ForecastAdapter._transform_dict: the timestamps are parsed outside any try
forecast_transform_dict(data, schema_file, uuid) ==
    LET f1 == forecast_map_basic(data, 1, EmptyDict)
        f2 == IF "forecast_data" \in DOMAIN data
              THEN DictSet(f1, "forecasted_values", value_dicts(data["forecast_data"])) ELSE f1
        timestamps == IF "forecasted_values" \in DOMAIN f2
                      THEN parse_timestamps(f2["forecasted_values"]) ELSE Returned(<<>>)
    IN  IF timestamps.exc # "" THEN Raised(timestamps.exc)
        ELSE LET f3 == IF timestamps.value # <<>>
                       THEN DictSet(f2, "prediction_horizon", prediction_horizon(timestamps.value))
                       ELSE f2
             IN  Returned(forecast_check_required(forecast_ensure_id(f3, uuid), schema_file))

\* identifier of the long layout: f"forecast-{station_id}-{pd.Timestamp.now():%Y%m%d%H%M%S}"
ClockId(station_id, now) == [kind |-> "clock", station_id |-> station_id, now |-> now]

\* "Set forecast type if possible"
forecast_type(horizon) ==
    LET minutes == fromisoformat(horizon.end_time).value - fromisoformat(horizon.start_time).value
    IN  IF minutes <= 1440 THEN "short_term"
        ELSE IF minutes <= 7 * 1440 THEN "medium_term" ELSE "long_term"

\* the metadata columns of a group that are keys of the mapping, from entry i on:
\* the value of the group's first row is stored under mapping[col]
RECURSIVE long_metadata(_, _, _)
long_metadata(first_row, i, forecast) ==
    IF i > Len(ForecastMapping) THEN forecast
    ELSE LET col == ForecastMapping[i].schema_key
         IN  IF col # "station_id" /\ col \in DOMAIN first_row
             THEN long_metadata(first_row, i + 1, DictSet(forecast, ForecastMapping[i].data_key, first_row[col]))
             ELSE long_metadata(first_row, i + 1, forecast)

\* the forecast of one station's group of rows (at least one row); no
\* required-field check follows
long_forecast(station_id, group, now) ==
    LET f0 == [station_id |-> station_id,
               forecast_id |-> ClockId(station_id, now),
               forecast_timestamp |-> TimeString(now, 0),
               forecasted_values |-> value_dicts(group)]
        f1 == DictSet(f0, "prediction_horizon",
                      prediction_horizon([i \in DOMAIN group |-> group[i].timestamp]))
        f2 == long_metadata(group[1], 1, f1)
    IN  IF "forecast_type" \notin DOMAIN f2
        THEN DictSet(f2, "forecast_type", forecast_type(f2["prediction_horizon"]))
        ELSE f2

\* the station ids of the model, in the order in which groupby yields them
StationOrder == <<"A", "B">>

\* ForecastAdapter._transform_time_series_df: one forecast per station;
\* pd.to_datetime of a group's timestamp column raises on a malformed value
_transform_time_series_df(rows, now) ==
    LET stations == SelectSeq(StationOrder, LAMBDA st : \E i \in DOMAIN rows : rows[i].station_id = st)
        group(st) == SelectSeq(rows, LAMBDA row : row.station_id = st)
    IN  IF \E i \in DOMAIN rows : ~rows[i].timestamp.parsable THEN Raised("ValueError")
        ELSE Returned([k \in DOMAIN stations |-> long_forecast(stations[k], group(stations[k]), now)])

\* the loop over the records of a file from i on, as in session_transform
RECURSIVE forecast_records(_, _, _, _, _, _)
forecast_records(form, records, schema_file, uuid, i, out) ==
    IF i > Len(records) THEN Returned(out)
    ELSE LET res == IF form = "dict" THEN forecast_transform_dict(records[i], schema_file, uuid)
                    ELSE forecast_transform_row(records[i], schema_file, uuid)
         IN  IF res.exc # "" THEN Raised(res.exc)
             ELSE forecast_records(form, records, schema_file, uuid, i + 1,
                                   IF res.value = None THEN out ELSE Append(out, res.value[1]))

\* transform_df_to_standard (form "row" or "long": a frame with its columns) and
\* transform_json_to_standard (form "dict": a list of objects)
forecast_transform(input, schema_file, now, uuid) ==
    IF input.form = "dict" THEN forecast_records("dict", input.records, schema_file, uuid, 1, <<>>)
    ELSE IF {"timestamp", "station_id", "predicted_value"} \subseteq input.columns
    THEN _transform_time_series_df(input.records, now)
    ELSE forecast_records("row", input.records, schema_file, uuid, 1, <<>>)

\* the forecast data (fields shared by the whole forecast, and its points) laid
\* out as a long frame of one row per point, as a frame of one row referring
\* to a time-series file, or as a JSON object with a forecast_data list
LongInput(fields, points) ==
    [form |-> "long",
     columns |-> DOMAIN fields \cup {"timestamp", "predicted_value"},
     records |-> [i \in DOMAIN points |-> fields @@ points[i]]]
RowInput(fields, points) ==
    [form |-> "row",
     columns |-> DOMAIN fields \cup {"forecast_file"},
     records |-> <<fields @@ [forecast_file |-> [readable |-> TRUE, rows |-> points]]>>]
DictInput(fields, points) ==
    [form |-> "dict",
     columns |-> {},
     records |-> <<fields @@ [forecast_data |-> points]>>]
ForecastForms == {"long", "row", "dict"}
ForecastInput(form, fields, points) ==
    CASE form = "long" -> LongInput(fields, points)
      [] form = "row" -> RowInput(fields, points)
      [] form = "dict" -> DictInput(fields, points)

\* the transform of the input, at wall-clock time now, uuid being what
\* uuid.uuid4() returns during the call
TransformForecasts(now, uuid) ==
    /\ raw # <<>>
    /\ raw.entity = "forecast"
    /\ LET res == forecast_transform(ForecastInput(raw.form, raw.fields, raw.points),
                                     adapter_schema, now, uuid)
       IN  ret' = [op |-> "forecast_transform", form |-> raw.form, exc |-> res.exc, value |-> res.value]
    /\ UNCHANGED <<repoVars, validatorVars, loaderVars, adapterVars, readerVars>>

---------------------------------------------------------------------------
(* SpecForecast: a ForecastAdapter, its schema loaded or not, and one forecast
   in one of the three layouts: either any combination of the fields with at
   most two points, one of which may be malformed, or every field with up to
   MaxPoints well-formed points in any order. *)

MaxPoints == 4

Point(timestamp) == [timestamp |-> timestamp, predicted_value |-> 3]

\* the instants of the points, in minutes
PointMinutes == {0, 15, 30, 60, 180}
GoodPoints == {Point(TimeString(t, 0)) : t \in PointMinutes}

ForecastFields ==
    {OptField("forecast_id", forecast_id) @@ OptField("station_id", station_id)
       @@ OptField("creation_timestamp", creation_timestamp)
       @@ OptField("model_version", model_version) :
     forecast_id \in Optional({GivenId("F1")}), station_id \in Optional({"A"}),
     creation_timestamp \in Optional({TimeString(0, 0), Malformed}),
     model_version \in Optional({"v1"})}
FewPoints ==
    {<<>>, <<Point(TimeString(0, 0))>>, <<Point(Malformed)>>,
     <<Point(TimeString(15, 0)), Point(TimeString(0, 0))>>,
     <<Point(TimeString(0, 0)), Point(Malformed)>>}
CompleteFields == [station_id |-> "A", creation_timestamp |-> TimeString(0, 0)]

FieldInputs ==
    {[entity |-> "forecast", form |-> form, fields |-> fields, points |-> points] :
     form \in ForecastForms, fields \in ForecastFields, points \in FewPoints}
SeriesInputs ==
    {[entity |-> "forecast", form |-> form, fields |-> CompleteFields, points |-> points] :
     form \in ForecastForms, points \in SeqsUpTo(GoodPoints, MaxPoints)}

\* a schema file whose required array names a field the mapping only copies
ForecastSchemaFile ==
    [required |-> {"forecast_id", "station_id", "forecast_timestamp", "forecasted_values", "model_version"}]
Clock == {600, 601}

InitForecast ==
    /\ InitNoRepo
    /\ InitValidatorIdle
    /\ InitNoFiles
    /\ \/ raw \in FieldInputs /\ adapter_schema \in Optional({ForecastSchemaFile})
       \/ raw \in SeriesInputs /\ adapter_schema = None

NextForecast == \E now \in Clock, uuid \in Uuids : TransformForecasts(now, uuid)

SpecForecast == InitForecast /\ [][NextForecast]_vars

---------------------------------------------------------------------------
(* Claims checked under SpecForecast *)

\* C16: every record an adapter transform returns contains every field of the
\* required-field set in force: the required array of the schema when it was
\* loaded, the fallback list of the entity when it was not.
C16_OutputHasRequiredFields ==
    ( /\ ret.op = "forecast_transform"
      /\ ret.exc = "" )
    => \A i \in DOMAIN ret.value :
           required_fields(adapter_schema, ForecastFallbackRequired) \subseteq DOMAIN ret.value[i]

\* the forecast_id of each record of a transform's output
ForecastIds(records) == [i \in DOMAIN records |-> records[i]["forecast_id"]]

\* the input has no forecast_id, and a station id and a timestamp can be derived
\* from it: the creation timestamp of a row or object, the timestamps of the
\* points of a long frame
IdDerivable ==
    /\ "forecast_id" \notin DOMAIN raw.fields
    /\ "station_id" \in DOMAIN raw.fields
    /\ IF raw.form = "long" THEN raw.points # <<>> ELSE "creation_timestamp" \in DOMAIN raw.fields

\* C17: when the input lacks an identifier and station_id and a timestamp are
\* derivable, the same transform of the same input at any other wall-clock
\* time (and with any other uuid4 outcome) gives the same id for every output
\* record, in the one-row, JSON and long layouts alike.
C17_DeterministicIds ==
    ( /\ ret.op = "forecast_transform"
      /\ ret.exc = ""
      /\ IdDerivable )
    => \A now \in Clock, uuid \in Uuids :
           LET again == forecast_transform(ForecastInput(raw.form, raw.fields, raw.points),
                                           adapter_schema, now, uuid)
           IN  /\ again.exc = ""
               /\ ForecastIds(again.value) = ForecastIds(ret.value)

\* the deltas that occur most often between consecutive sorted instants
ModalDeltas(instants) ==
    LET diffs == consecutive_diffs(sort_instants(instants, 1, <<>>))
    IN  {diffs[i] : i \in {i \in DOMAIN diffs :
                               \A j \in DOMAIN diffs : Count(diffs, diffs[j]) <= Count(diffs, diffs[i])}}

\* the fixed table of the resolution names
ResolutionTable ==
    (15 :> "15min") @@ (30 :> "30min") @@ (60 :> "1hour") @@ (180 :> "3hour")
        @@ (360 :> "6hour") @@ (720 :> "12hour") @@ (1440 :> "1day")

\* the resolution of the record a transform of the layout form gives for points
ResolutionIn(form, points) ==
    LET res == forecast_transform(ForecastInput(form, raw.fields, points), adapter_schema, 600, 1)
    IN  IF res.exc = "" /\ res.value # <<>> /\ "prediction_horizon" \in DOMAIN res.value[1]
           /\ "resolution" \in DOMAIN res.value[1]["prediction_horizon"]
        THEN Some(res.value[1]["prediction_horizon"]["resolution"])
        ELSE None

\* C20: the resolution of a forecast with at least two (parsable) timestamps is
\* that of a most frequent delta between consecutive sorted timestamps, named
\* through the fixed table (15min, 30min, 1hour, 3hour, 6hour, 12hour, 1day)
\* and written Nmin for any other N; the long layout, the referenced file and
\* the JSON forecast_data list give the same resolution, and so does the
\* input in reverse order.
C20_ResolutionFromModalDelta ==
    ( /\ ret.op = "forecast_transform"
      /\ ret.exc = ""
      /\ ret.value # <<>>
      /\ \A i \in DOMAIN raw.points : raw.points[i].timestamp.parsable )
    => LET horizon == IF "prediction_horizon" \in DOMAIN ret.value[1]
                      THEN ret.value[1]["prediction_horizon"] ELSE EmptyDict
           instants == [i \in DOMAIN raw.points |-> fromisoformat(raw.points[i].timestamp).value]
       IN  IF Len(raw.points) < 2 THEN "resolution" \notin DOMAIN horizon
           ELSE /\ "resolution" \in DOMAIN horizon
                /\ horizon.resolution.minutes \in ModalDeltas(instants)
                /\ horizon.resolution.label =
                       IF horizon.resolution.minutes \in DOMAIN ResolutionTable
                       THEN ResolutionTable[horizon.resolution.minutes] ELSE "Nmin"
                /\ \A form \in ForecastForms, points \in {raw.points, Reverse(raw.points)} :
                       ResolutionIn(form, points) \in {None, Some(horizon.resolution)}
                /\ (adapter_schema = None /\ raw \in SeriesInputs) =>
                       \A form \in ForecastForms : ResolutionIn(form, raw.points) # None

\* C20 witness: four timestamps given out of order, with deltas 15, 15 and 30
\* once sorted, and the resolution 15min.
C20_Witness ==
    /\ ret.op = "forecast_transform"
    /\ ret.exc = ""
    /\ ret.value # <<>>
    /\ Len(raw.points) = 4
    /\ raw.points[1].timestamp.wall > raw.points[2].timestamp.wall
    /\ {raw.points[i].timestamp.wall : i \in DOMAIN raw.points} = {0, 15, 30, 60}
    /\ ret.value[1]["prediction_horizon"]["resolution"] = Resolution(15)
    /\ ret.value[1]["prediction_horizon"]["resolution"].label = "15min"

---------------------------------------------------------------------------
(* Further claims checked under SpecSession *)

\* C21: every timestamp of the output is the input's instant in UTC: for a
\* parsable start_time or end_time of the input, written without or with a
\* UTC offset, the string of the output (which ends in Z) denotes the same
\* instant as the string of the input.
C21_TimestampsKeepTheInstant ==
    ( /\ ret.op = "session_transform"
      /\ ret.exc = ""
      /\ ret.value # <<>> )
    => \A key \in {"start_time", "end_time"} \cap DOMAIN InputRecord :
           InputRecord[key].parsable =>
               /\ key \in DOMAIN OutputRecord
               /\ OutputRecord[key].parsable
               /\ OutputRecord[key].offset = 0
               /\ fromisoformat(OutputRecord[key]).value = fromisoformat(InputRecord[key]).value

---------------------------------------------------------------------------
(* StationAdapter *)

\* _get_default_mapping: the schema key and the column it is read from, for
\* the columns the inputs of the model can have
StationMapping ==
    <<<<"station_id", "station_id">>, <<"charger_count", "charger_count">>,
      <<"chargers", "chargers">>, <<"latitude", "latitude">>, <<"longitude", "longitude">>,
      <<"charger_type", "charger_type">>, <<"connector_types", "connector_types">>>>

StationFallbackRequired == {"station_id", "location", "chargers"}

\* the loop over mapping.items() from entry i on: a value that is there (not
\* NaN, not None) is copied
RECURSIVE station_map_basic(_, _, _)
station_map_basic(data, i, station) ==
    IF i > Len(StationMapping) THEN station
    ELSE IF StationMapping[i][2] \in DOMAIN data
         THEN station_map_basic(data, i + 1, DictSet(station, StationMapping[i][1], data[StationMapping[i][2]]))
         ELSE station_map_basic(data, i + 1, station)

\* "Special handling for nested objects": the location of latitude and longitude
station_location(data, station) ==
    IF "latitude" \in DOMAIN data /\ "longitude" \in DOMAIN data
    THEN DictSet(station, "location", [latitude |-> data["latitude"], longitude |-> data["longitude"]])
    ELSE station

\* a string cell holding JSON text (valid, with the value it decodes to) or other text
JsonText(value) == [string |-> "json", decodes_to |-> value]
PlainText == [string |-> "text"]
IsString(v) == "string" \in DOMAIN v

\* "Process chargers if available": a string is replaced by json.loads of it,
\* or deleted when it is not valid JSON
station_parse_chargers(station) ==
    IF "chargers" \in DOMAIN station /\ IsString(station["chargers"])
    THEN IF station["chargers"].string = "json"
         THEN DictSet(station, "chargers", station["chargers"].decodes_to)
         ELSE [key \in DOMAIN station \ {"chargers"} |-> station[key]]
    ELSE station

\* f"{station.get('station_id', 'unknown')}-{i+1}" and the same with "-{j+1}"
ChargerId(station, n) ==
    [station_id |-> IF "station_id" \in DOMAIN station THEN station["station_id"] ELSE "unknown",
     charger |-> n]
ConnectorId(station, n, j) ==
    [station_id |-> IF "station_id" \in DOMAIN station THEN station["station_id"] ELSE "unknown",
     charger |-> n, connector |-> j]

\* a comma-separated string is the sequence of its parts, each a type name that
\* may be written with blanks around it; split(',') gives the parts and strip()
\* the name
Part(name, blanks) == [name |-> name, blanks |-> blanks]
strip(part) == Part(part.name, FALSE)

\* "DC" in str(row['charger_type'])
ContainsDC(charger_type) == charger_type \in {"DC", "DC fast"}

\* the charger number n (from 1) that the loop over range(charger_count) builds
synthesized_charger(row, station, n) ==
    LET default == [charger_id |-> ChargerId(station, n),
                    max_power_kw |-> 50,
                    connectors |-> <<[connector_id |-> ConnectorId(station, n, 1), type |-> "Type2"]>>]
        typed == IF "charger_type" \in DOMAIN row
                 THEN DictSet(default, "power_type", IF ContainsDC(row["charger_type"]) THEN "DC" ELSE "AC")
                 ELSE default
    IN  IF "connector_types" \in DOMAIN row
        THEN DictSet(typed, "connectors",
                     [j \in DOMAIN row["connector_types"] |->
                         [connector_id |-> ConnectorId(station, n, j),
                          type |-> strip(row["connector_types"][j]).name]])
        ELSE typed

\* "If no chargers field exists but we have charger count or type information,
\* create it"
station_synthesize_chargers(row, station) ==
    IF "chargers" \notin DOMAIN station /\ "charger_count" \in DOMAIN row
    THEN DictSet(station, "chargers",
                 [n \in 1..row["charger_count"] |-> synthesized_charger(row, station, n)])
    ELSE station

\* "Ensure required fields are present": the station, or None
station_check_required(station, schema_file) ==
    IF required_fields(schema_file, StationFallbackRequired) \subseteq DOMAIN station
    THEN Some(station) ELSE None

\* StationAdapter._transform_row
station_transform_row(row, schema_file) ==
    station_check_required(
        station_synthesize_chargers(row,
            station_parse_chargers(station_location(row, station_map_basic(row, 1, EmptyDict)))),
        schema_file)

\* StationAdapter._transform_dict: the chargers are neither parsed nor synthesized
station_transform_dict(data, schema_file) ==
    station_check_required(station_location(data, station_map_basic(data, 1, EmptyDict)), schema_file)

\* the loop of transform_df_to_standard / transform_json_to_standard over the
\* records from i on: a record that is None is left out
RECURSIVE station_transform(_, _, _, _, _)
station_transform(form, records, schema_file, i, out) ==
    IF i > Len(records) THEN out
    ELSE LET res == IF form = "row" THEN station_transform_row(records[i], schema_file)
                    ELSE station_transform_dict(records[i], schema_file)
         IN  station_transform(form, records, schema_file, i + 1,
                               IF res = None THEN out ELSE Append(out, res[1]))

\* transform_csv_to_standard / transform_df_to_standard / transform_json_to_standard
\* of the input
TransformStations ==
    /\ raw # <<>>
    /\ raw.entity = "station"
    /\ ret' = [op |-> "station_transform", form |-> raw.form, exc |-> "",
               value |-> station_transform(raw.form, raw.records, adapter_schema, 1, <<>>)]
    /\ UNCHANGED <<repoVars, validatorVars, loaderVars, adapterVars, readerVars>>

---------------------------------------------------------------------------
(* SpecStation: a StationAdapter, its schema loaded or not, and the data of one
   station given as a CSV/DataFrame row or as a JSON object. *)

MaxChargers == 2

\* an explicit chargers value: JSON text of a list of one charger (as a CSV
\* cell holds it), other text, or the list itself (as a JSON object holds it)
GivenCharger == [charger_id |-> "C1", connectors |-> <<[connector_id |-> "C1-1", type |-> "CCS"]>>]
GivenChargers == {JsonText(<<GivenCharger>>), PlainText}

ConnectorStrings == {<<Part("CCS", FALSE)>>, <<Part("CCS", FALSE), Part("CHAdeMO", TRUE)>>}

\* the data of a station: every field is there or not
StationData ==
    {OptField("station_id", station_id) @@ OptField("charger_count", charger_count)
       @@ OptField("chargers", chargers) @@ OptField("charger_type", charger_type)
       @@ OptField("connector_types", connector_types)
       @@ (IF located THEN [latitude |-> 52, longitude |-> 4] ELSE EmptyDict) :
     station_id \in Optional({"A"}), charger_count \in Optional(0..MaxChargers),
     chargers \in Optional(GivenChargers), charger_type \in Optional({"DC fast", "AC"}),
     connector_types \in Optional(ConnectorStrings), located \in BOOLEAN}

StationForms == {"row", "dict"}
StationInputs ==
    {[entity |-> "station", form |-> form, records |-> <<data>>] :
     form \in StationForms, data \in StationData}

\* a schema file with a required array
StationSchemaFile == [required |-> {"station_id", "chargers"}]

InitStation ==
    /\ InitNoRepo
    /\ InitValidatorIdle
    /\ InitNoFiles
    /\ raw \in StationInputs
    /\ adapter_schema \in Optional({StationSchemaFile})

NextStation == TransformStations

SpecStation == InitStation /\ [][NextStation]_vars

---------------------------------------------------------------------------
(* Claims checked under SpecStation *)

\* C22: for station data with no chargers field and a charger_count of n (and a
\* station id and a location), the transform returns the station with exactly
\* n chargers whose ids are <station_id>-1 .. <station_id>-n, each with at
\* least one connector, and the row form and the JSON form of the same data
\* give the same record.
C22_ChargersSynthesizedFromCount ==
    ( /\ ret.op = "station_transform"
      /\ "chargers" \notin DOMAIN raw.records[1]
      /\ {"charger_count", "station_id", "latitude", "longitude"} \subseteq DOMAIN raw.records[1] )
    => LET data == raw.records[1]
           n == data["charger_count"]
       IN  /\ Len(ret.value) = 1
           /\ "chargers" \in DOMAIN ret.value[1]
           /\ Len(ret.value[1]["chargers"]) = n
           /\ \A i \in 1..n :
                  /\ ret.value[1]["chargers"][i].charger_id = [station_id |-> data["station_id"], charger |-> i]
                  /\ Len(ret.value[1]["chargers"][i].connectors) >= 1
           /\ \A form \in StationForms :
                  station_transform(form, raw.records, adapter_schema, 1, <<>>) = ret.value

---------------------------------------------------------------------------
(* SpecMeasure: a SessionAdapter without schema and one complete session row
   with up to two energy and two power column pairs, each pair with its time
   and its value there or not. *)

MeasureTimes == {TimeString(0, 0), TimeString(30, 0), TimeString(60, 0)}

\* the columns of a pair: nothing, the time alone, the value alone, or both
PairColumns(time_key, value) ==
    {EmptyDict, ValueKey(time_key) :> value}
    \cup {time_key :> time : time \in MeasureTimes}
    \cup {(time_key :> time) @@ (ValueKey(time_key) :> value) : time \in MeasureTimes}

CompleteSession ==
    [session_id |-> GivenId("S1"), station_id |-> "A", charger_id |-> "C1",
     start_time |-> TimeString(0, 0), end_time |-> TimeString(30, 0), energy_delivered_kwh |-> 5]

MeasureRows ==
    {CompleteSession @@ e1 @@ e2 @@ p1 @@ p2 :
     e1 \in PairColumns("energy_1_time", 7), e2 \in PairColumns("energy_2_time", 8),
     p1 \in PairColumns("power_1_time", 11), p2 \in {EmptyDict, [power_2_time |-> TimeString(30, 0), power_2_value |-> 12]}}

InitMeasure ==
    /\ InitNoRepo
    /\ InitValidatorIdle
    /\ InitNoFiles
    /\ raw \in {[entity |-> "session", form |-> "row", records |-> <<row>>] : row \in MeasureRows}
    /\ adapter_schema = None

NextMeasure == \E uuid \in Uuids : TransformSessions(uuid)

SpecMeasure == InitMeasure /\ [][NextMeasure]_vars

\* the column pairs of the input row whose time and value are both there
CompletePairs(keys) ==
    {key \in Range(keys) : key \in DOMAIN InputRecord /\ ValueKey(key) \in DOMAIN InputRecord}

\* C23: the energy_measurements of the output are in non-decreasing order of
\* time and hold one entry per distinct time of a complete pair; an entry
\* carries energy_kwh exactly when an energy pair has its time and power_kw
\* exactly when a power pair has it, so that an energy and a power sample of the
\* same time are one entry with both; a pair without time or without value
\* gives no entry.
C23_MeasurementsSortedAndMerged ==
    ( /\ ret.op = "session_transform"
      /\ ret.exc = ""
      /\ ret.value # <<>> )
    => LET times(keys) == {_format_datetime(InputRecord[key]) : key \in CompletePairs(keys)}
           entries == IF "energy_measurements" \in DOMAIN OutputRecord
                      THEN OutputRecord["energy_measurements"] ELSE <<>>
       IN  /\ \A i, j \in DOMAIN entries :
                  i < j => /\ fromisoformat(entries[i].timestamp).value
                                 <= fromisoformat(entries[j].timestamp).value
                           /\ entries[i].timestamp # entries[j].timestamp
           /\ {entries[i].timestamp : i \in DOMAIN entries} = times(EnergyTimeKeys) \cup times(PowerTimeKeys)
           /\ \A i \in DOMAIN entries :
                  /\ "energy_kwh" \in DOMAIN entries[i] <=> entries[i].timestamp \in times(EnergyTimeKeys)
                  /\ "power_kw" \in DOMAIN entries[i] <=> entries[i].timestamp \in times(PowerTimeKeys)

---------------------------------------------------------------------------
(* SpecReaders: one writer registering payload objects under one id and two
   readers that keep what get_dataset returned.  The repository stores and
   returns references; register_dataset is taken in two steps (the store, then
   metadata and notification), and a reader may read between them. *)

MaxPayloadObjects == 3

Readers == {"dashboard_demo", "data_visualizer"}
ReaderIds == {"stations"}

\* pd.DataFrame(all_stations): a new object with the value
allocate(objs, value) == [objects |-> Append(objs, value), ref |-> Len(objs) + 1]

\* a store that overwrites the object bound to the id instead of binding the new one
store_in_place(objs, r, dataset_id, ref) ==
    IF dataset_id \in DOMAIN r.datasets
    THEN [objects |-> [objs EXCEPT ![r.datasets[dataset_id]] = objs[ref]], repo |-> r]
    ELSE [objects |-> objs, repo |-> store_dataset(r, dataset_id, ref)]

\* self.datasets[dataset_id] = data: the id is bound to the object; no object is written
store_reference(objs, r, dataset_id, ref) ==
    [objects |-> objs, repo |-> store_dataset(r, dataset_id, ref)]

\* register_dataset up to and including the store, on a new object (as the
\* loader passes) or on an object registered before
WriterStore(dataset_id, value, fresh) ==
    /\ writer = None
    /\ handles["loader"] # 0
    /\ fresh => Len(objects) < MaxPayloadObjects
    /\ \E ref \in IF fresh THEN {Len(objects) + 1} ELSE {i \in DOMAIN objects : objects[i] = value} :
           LET objs == IF fresh THEN allocate(objects, value).objects ELSE objects
               res == store_reference(objs, Repo("loader"), dataset_id, ref)
           IN  /\ objects' = res.objects
               /\ heap' = [heap EXCEPT ![handles["loader"]] = res.repo]
               /\ writer' = Some([dataset_id |-> dataset_id, ref |-> ref])
               /\ ret' = [op |-> "store", dataset_id |-> dataset_id, ref |-> ref]
    /\ registered' = DictSet(registered, dataset_id, value)
    /\ UNCHANGED <<_instance, handles, subscribed, held, validatorVars, loaderVars, adapterVars>>

\* the rest of register_dataset: metadata, timestamp, notification
WriterFinish(metadata, now, raisers) ==
    /\ writer # None
    /\ LET dataset_id == writer[1].dataset_id
           res == _notify_subscribers(
                      stamp_metadata(update_metadata(Repo("loader"), dataset_id, metadata), dataset_id, now),
                      dataset_id, raisers)
       IN  /\ heap' = [heap EXCEPT ![handles["loader"]] = res.repo]
           /\ ret' = [op |-> "register_dataset", dataset_id |-> dataset_id, calls |-> res.calls]
    /\ writer' = None
    /\ UNCHANGED <<_instance, handles, registered, subscribed, objects, held,
                   validatorVars, loaderVars, adapterVars>>

\* payload = repository.get_dataset(dataset_id): the reader keeps the reference
\* (seen: the payload registered at that moment)
ReaderGet(reader, dataset_id) ==
    /\ handles["loader"] # 0
    /\ LET res == get_dataset(Repo("loader"), dataset_id, None)
       IN  /\ ret' = [op |-> "get_dataset", reader |-> reader, dataset_id |-> dataset_id,
                      exc |-> res.exc, value |-> res.value]
           /\ held' = IF res.exc = ""
                      THEN [held EXCEPT ![reader] =
                               Some([dataset_id |-> dataset_id, ref |-> res.value,
                                     seen |-> registered[dataset_id]])]
                      ELSE held
    /\ UNCHANGED <<repoVars, objects, writer, validatorVars, loaderVars, adapterVars>>

InitReaders ==
    /\ _instance = 1
    /\ heap = DictSet(EmptyDict, 1, subscribe(_initialize, "stations", 1))
    /\ handles = [h \in Handles |-> IF h = "loader" THEN 1 ELSE 0]
    /\ registered = EmptyDict
    /\ subscribed = [d \in DatasetIds |-> IF d = "stations" THEN <<1>> ELSE <<>>]
    /\ ret = NoCall
    /\ objects = <<>>
    /\ held = [reader \in Readers |-> None]
    /\ writer = None
    /\ InitValidatorIdle
    /\ InitNoFiles
    /\ InitAdapterIdle

NextReaders ==
    \/ \E d \in ReaderIds, value \in RepoPayloads, fresh \in BOOLEAN : WriterStore(d, value, fresh)
    \/ \E now \in Times : WriterFinish(None, now, {})
    \/ \E reader \in Readers, d \in ReaderIds : ReaderGet(reader, d)

SpecReaders == InitReaders /\ [][NextReaders]_vars

\* C24: the value of the object a reader holds is the payload that was registered
\* when the reader read it, whatever the writer has registered since and
\* wherever the writer's register_dataset call stands.
C24_HeldPayloadUnaffected ==
    \A reader \in Readers :
        held[reader] # None => objects[held[reader][1].ref] = held[reader][1].seen

\* C24 witness: a reader holds the object it read, and the writer has since
\* stored a different payload under the same id (its call is still in progress).
C24_Witness ==
    /\ held["dashboard_demo"] # None
    /\ held["dashboard_demo"][1].dataset_id = "stations"
    /\ writer # None
    /\ Repo("loader").datasets["stations"] # held["dashboard_demo"][1].ref
    /\ registered["stations"] # held["dashboard_demo"][1].seen
    /\ objects[held["dashboard_demo"][1].ref] = held["dashboard_demo"][1].seen

---------------------------------------------------------------------------
(* SpecReentrant: callbacks that use the repository while they are being
   notified.  A callback's body reads the dataset and its metadata, raises, or
   subscribes or unsubscribes a callback of the same id.  In each registration
   one callback has any of these bodies and the others read. *)

ReentrantCallbacks == {1, 2, 3}
ReentrantIds == {"stations"}

ReadBody == [do |-> "read"]
RaiseBody == [do |-> "raise"]
SubscribeBody(target) == [do |-> "subscribe", target |-> target]
UnsubscribeBody(target) == [do |-> "unsubscribe", target |-> target]
Bodies ==
    {ReadBody, RaiseBody}
    \cup {SubscribeBody(target) : target \in ReentrantCallbacks}
    \cup {UnsubscribeBody(target) : target \in ReentrantCallbacks}

\* callback(self.datasets[dataset_id]) inside the try block, the callback cb
\* having the given body: the repository after the call and the record of the call
run_callback(r, dataset_id, cb, body) ==
    LET arg == r.datasets[dataset_id]
        call == [callback |-> cb, arg |-> arg, do |-> body.do]
    IN  CASE body.do = "read" ->
                 [repo |-> r,
                  call |-> call @@ [seen_data |-> get_dataset(r, dataset_id, None),
                                    seen_metadata |-> get_metadata(r, dataset_id)]]
          [] body.do = "raise" -> [repo |-> r, call |-> call]
          [] body.do = "subscribe" ->
                 [repo |-> subscribe(r, dataset_id, body.target),
                  call |-> call @@ [target |-> body.target]]
          [] body.do = "unsubscribe" ->
                 [repo |-> unsubscribe(r, dataset_id, body.target).repo,
                  call |-> call @@ [target |-> body.target,
                                    removed |-> unsubscribe(r, dataset_id, body.target).value]]

\* the for loop of _notify_subscribers from list position i on: the list
\* iterator yields position i of the list as it is when the position is reached
RECURSIVE notify_loop_bodies(_, _, _, _, _)
notify_loop_bodies(r, dataset_id, i, calls, bodies) ==
    IF i > Len(r.subscriptions[dataset_id]) THEN [repo |-> r, calls |-> calls, exc |-> ""]
    ELSE LET cb == r.subscriptions[dataset_id][i]
             out == run_callback(r, dataset_id, cb, bodies[cb])
         IN  notify_loop_bodies(out.repo, dataset_id, i + 1, Append(calls, out.call), bodies)

_notify_subscribers_bodies(r, dataset_id, bodies) ==
    IF dataset_id \in DOMAIN r.subscriptions
    THEN notify_loop_bodies(r, dataset_id, 1, <<>>, bodies)
    ELSE [repo |-> r, calls |-> <<>>, exc |-> ""]

\* a registration that notifies before it updates the metadata
register_dataset_notify_early(r, dataset_id, data, metadata, now, bodies) ==
    LET res == _notify_subscribers_bodies(store_dataset(r, dataset_id, data), dataset_id, bodies)
    IN  [res EXCEPT !.repo = stamp_metadata(update_metadata(@, dataset_id, metadata), dataset_id, now)]

\* register_dataset with callbacks that have bodies
register_dataset_bodies(r, dataset_id, data, metadata, now, bodies) ==
    _notify_subscribers_bodies(
        stamp_metadata(update_metadata(store_dataset(r, dataset_id, data), dataset_id, metadata),
                       dataset_id, now),
        dataset_id, bodies)

RegisterReentrant(h, dataset_id, data, metadata, now, bodies) ==
    /\ handles[h] # 0
    /\ LET res == register_dataset_bodies(Repo(h), dataset_id, data, metadata, now, bodies)
       IN  /\ heap' = [heap EXCEPT ![handles[h]] = res.repo]
           /\ ret' = [op |-> "register_dataset", dataset_id |-> dataset_id, data |-> data,
                      metadata |-> metadata, calls |-> res.calls,
                      before |-> SubscriberList(Repo(h), dataset_id),
                      replaced |-> /\ dataset_id \in DOMAIN Repo(h).datasets
                                   /\ Repo(h).datasets[dataset_id] # data]
    /\ registered' = DictSet(registered, dataset_id, data)
    /\ subscribed' = [subscribed EXCEPT ![dataset_id] =
                         SubscriberList(register_dataset_bodies(Repo(h), dataset_id, data, metadata,
                                                                now, bodies).repo, dataset_id)]
    /\ UNCHANGED <<_instance, handles, validatorVars, loaderVars, adapterVars, readerVars>>

ReentrantMetadata == {None, Some([schema |-> 1])}

\* the callback actor has the body, every other callback reads
BodiesWith(actor, body) == [cb \in ReentrantCallbacks |-> IF cb = actor THEN body ELSE ReadBody]

InitReentrant == InitLoaderRepo /\ InitValidatorIdle /\ InitNoFiles /\ InitAdapterIdle

NextReentrant ==
    \/ \E d \in ReentrantIds, data \in UniformFrames, metadata \in ReentrantMetadata, now \in Times,
          actor \in ReentrantCallbacks, body \in Bodies :
           RegisterReentrant("loader", d, data, metadata, now, BodiesWith(actor, body))
    \/ \E d \in ReentrantIds, cb \in ReentrantCallbacks : Subscribe("loader", d, cb)

SpecReentrant == InitReentrant /\ [][NextReentrant]_vars

\* the number of invocations of cb in a notification round
Invocations(calls, cb) == Cardinality({i \in DOMAIN calls : calls[i].callback = cb})

\* the callbacks that a different callback unsubscribed during the round
UnsubscribedByOthers(calls) ==
    {calls[i].target : i \in {j \in DOMAIN calls : /\ calls[j].do = "unsubscribe"
                                                   /\ calls[j].removed
                                                   /\ calls[j].target # calls[j].callback}}

\* C25: in a notification round no callback is invoked twice, and every
\* callback that was subscribed when register_dataset was called and that no
\* other callback unsubscribed during the round (so that it was still
\* subscribed at its turn) is invoked exactly once, whatever the callbacks
\* subscribe or unsubscribe meanwhile.
C25_ReentrantChangesSkipNobody ==
    ret.op = "register_dataset" =>
        /\ \A cb \in ReentrantCallbacks : Invocations(ret.calls, cb) <= 1
        /\ \A cb \in Range(ret.before) \ UnsubscribedByOthers(ret.calls) :
               Invocations(ret.calls, cb) = 1

\* C26: every callback is invoked with the payload of the registration that
\* triggered it, and one that reads during notification gets that payload from
\* get_dataset(id) and from get_metadata(id) the metadata as the registration
\* leaves it, with every key of the metadata passed to the registration.
C26_StoredBeforeNotified ==
    ret.op = "register_dataset" =>
        \A i \in DOMAIN ret.calls :
            LET call == ret.calls[i]
            IN  /\ call.arg = ret.data
                /\ call.do = "read" =>
                       /\ call.seen_data = Returned(call.arg)
                       /\ call.seen_data = get_dataset(Repo("loader"), ret.dataset_id, None)
                       /\ call.seen_metadata = get_metadata(Repo("loader"), ret.dataset_id)
                       /\ \A key \in DOMAIN GivenMetadata(ret.metadata) :
                              /\ call.seen_metadata # None
                              /\ key \in DOMAIN call.seen_metadata[1]
                              /\ call.seen_metadata[1][key] = GivenMetadata(ret.metadata)[key]

\* C26 witness: a registration with metadata that replaced a different payload,
\* with a reading callback that saw the new payload and the metadata entry.
C26_Witness ==
    /\ ret.op = "register_dataset"
    /\ ret.replaced
    /\ ret.metadata = Some([schema |-> 1])
    /\ \E i \in DOMAIN ret.calls :
           /\ ret.calls[i].do = "read"
           /\ ret.calls[i].seen_data.value = ret.data
           /\ ret.calls[i].seen_metadata[1]["schema"] = 1

---------------------------------------------------------------------------
(* Further claims checked under SpecLoader *)

\* C27: in a load every discovered file is in the list of files to transform
\* exactly once, also when its name matches several patterns of the entity, and
\* a registered collection holds each accepted record of each distinct file
\* exactly once: its size is the sum over the distinct files.
C27_EachFileTransformedOnce ==
    ret.op = "load" =>
        LET files == discover(data_dir, ret.entity.patterns, 1)
        IN  /\ \A i \in DiscoveredPositions(ret.entity) : Count(files, data_dir[i]) = 1
            /\ ret.registrations = 1 =>
                   Len(LoaderRepo.datasets[ret.dataset_id].rows)
                       = SumAccepted(DiscoveredPositions(ret.entity))

---------------------------------------------------------------------------
(* Further claims checked under SpecValidate *)

\* C28: every report validate_data returns for a loaded schema has valid_count
\* + invalid_count = total_objects = the size of the collection, has_errors
\* exactly when invalid_count > 0, the returned boolean exactly when
\* invalid_count = 0, at most max_errors error examples, and a success rate of
\* valid_count / total_objects, or 0 for the empty collection (which returns
\* True).
C28_ReportIsConsistent ==
    ( /\ ret.op = "validate_data"
      /\ ret.exc = ""
      /\ ret.schema_name \in DOMAIN vschemas )
    => LET report == ret.report
           rate == report.validation_success_rate
       IN  /\ report.total_objects = Len(vdata)
           /\ report.valid_count + report.invalid_count = report.total_objects
           /\ report.valid_count >= 0 /\ report.invalid_count >= 0
           /\ report.has_errors <=> report.invalid_count > 0
           /\ ret.ok <=> report.invalid_count = 0
           /\ Len(report.error_examples) <= ret.max_errors
           /\ rate.den > 0
           /\ IF report.total_objects > 0
              THEN rate.num * report.total_objects = report.valid_count * rate.den
              ELSE rate.num = 0 /\ ret.ok

\* C28 witness: a report with valid and invalid objects and fewer examples than
\* invalid objects.
C28_Witness ==
    /\ ret.op = "validate_data"
    /\ ret.exc = ""
    /\ ret.schema_name \in DOMAIN vschemas
    /\ ret.report.valid_count >= 1
    /\ ret.report.invalid_count >= 1
    /\ Len(ret.report.error_examples) < ret.report.invalid_count
    /\ ~ret.ok

---------------------------------------------------------------------------
(* SpecFrame: two dataset ids, registered with and without metadata, subscribed
   to, and read through get_dataset (with and without filters), get_metadata
   and list_datasets. *)

\* the value of m.get(key, None)
DictGet(m, key) == IF key \in DOMAIN m THEN Some(m[key]) ELSE None

\* list_datasets: rows, last_updated and schema of every stored dataset
list_datasets(r) ==
    [dataset_id \in DOMAIN r.datasets |->
        LET metadata == IF dataset_id \in DOMAIN r.metadata THEN r.metadata[dataset_id] ELSE EmptyDict
        IN  [rows |-> Len(r.datasets[dataset_id].rows),
             last_updated |-> DictGet(metadata, "last_updated"),
             schema |-> DictGet(metadata, "schema")]]

ReadOps == {"get_dataset", "get_metadata", "list_datasets"}

\* a get_dataset that keeps the filtered frame as the stored payload
read_narrowing(r, op, dataset_id, filters) ==
    LET res == get_dataset(r, dataset_id, filters)
    IN  IF op = "get_dataset" /\ res.exc = ""
        THEN [repo |-> store_dataset(r, dataset_id, res.value), result |-> res, calls |-> <<>>]
        ELSE [repo |-> r, result |-> Returned(None), calls |-> <<>>]

\* a read operation: the repository after it (no attribute is assigned), its
\* result, and the callbacks it invoked (none: no read notifies)
read(r, op, dataset_id, filters) ==
    [repo |-> r,
     result |-> CASE op = "get_dataset" -> get_dataset(r, dataset_id, filters)
                  [] op = "get_metadata" -> Returned(get_metadata(r, dataset_id))
                  [] op = "list_datasets" -> Returned(list_datasets(r)),
     calls |-> <<>>]

Read(h, op, dataset_id, filters) ==
    /\ handles[h] # 0
    /\ LET res == read(Repo(h), op, dataset_id, filters)
       IN  /\ heap' = [heap EXCEPT ![handles[h]] = res.repo]
           /\ ret' = [op |-> op, dataset_id |-> dataset_id, filters |-> filters,
                      exc |-> res.result.exc, value |-> res.result.value, calls |-> res.calls]
    /\ UNCHANGED <<_instance, handles, registered, subscribed, validatorVars, loaderVars,
                   adapterVars, readerVars>>

FrameCallbacks == {1, 2}
\* a frame of two stations and a frame of one
FramePayloads ==
    {DataFrame(<<[station_id |-> 1, city |-> 1], [station_id |-> 2, city |-> 1]>>),
     DataFrame(<<[station_id |-> 2, city |-> 2]>>)}
FrameFilters == {None, Some(<< <<"station_id", Scalar(1)>> >>)}
FrameMetadata == {None, Some([schema |-> 1])}

InitFrame == InitLoaderRepo /\ InitValidatorIdle /\ InitNoFiles /\ InitAdapterIdle

NextFrame ==
    \/ \E d \in DatasetIds, data \in FramePayloads, metadata \in FrameMetadata, now \in Times :
           RegisterDataset("loader", d, data, metadata, now, RaisingCallbacks)
    \/ \E d \in DatasetIds, cb \in FrameCallbacks : Subscribe("loader", d, cb)
    \/ \E op \in ReadOps, d \in DatasetIds, filters \in FrameFilters : Read("loader", op, d, filters)

SpecFrame == InitFrame /\ [][NextFrame]_vars

\* C29: a read (get_dataset with or without filters, found or not, get_metadata,
\* list_datasets) leaves datasets, metadata and subscriptions as they were and
\* invokes no subscriber; after it an unfiltered get_dataset of every
\* registered id still returns the whole registered payload.
C29_ReadsChangeNothing ==
    [][ ret'.op \in ReadOps =>
            /\ heap' = heap
            /\ ret'.calls = <<>>
            /\ \A d \in DOMAIN registered :
                   get_dataset(heap'[handles'["loader"]], d, None) = Returned(registered[d]) ]_vars

\* C29 witness: a filtered get_dataset that returned fewer rows than the payload
\* registered under the id has.
C29_Witness ==
    /\ ret.op = "get_dataset"
    /\ ret.exc = ""
    /\ ret.filters # None
    /\ Len(ret.value.rows) < Len(registered[ret.dataset_id].rows)
    /\ SubscriberList(LoaderRepo, ret.dataset_id) # <<>>

\* what the repository holds for an id: payload, metadata and subscriber list
\* (None where the id has none)
StoredFor(r, d) ==
    [payload |-> DictGet(r.datasets, d), metadata |-> DictGet(r.metadata, d),
     subscribers |-> DictGet(r.subscriptions, d)]

\* C30: register_dataset(a, ...) leaves payload, metadata and subscriber list of
\* every other id as they were and invokes exactly the callbacks subscribed to
\* a, in order and with the new payload, also at the first registration of a
\* when they subscribed before it.
C30_DatasetsIsolated ==
    [][ ret'.op = "register_dataset" =>
            LET a == ret'.dataset_id
                before == heap[handles["loader"]]
                after == heap'[handles'["loader"]]
            IN  /\ \A b \in DatasetIds \ {a} : StoredFor(after, b) = StoredFor(before, b)
                /\ [i \in DOMAIN ret'.calls |-> ret'.calls[i].callback] = SubscriberList(before, a)
                /\ \A i \in DOMAIN ret'.calls : ret'.calls[i].arg = ret'.data
                /\ after.datasets[a] = ret'.data ]_vars

\* C30 witness: a registration of stations that invoked its subscriber, while
\* sessions holds a different payload and has a subscriber that stations has not.
C30_Witness ==
    /\ ret.op = "register_dataset"
    /\ ret.dataset_id = "stations"
    /\ ret.calls # <<>>
    /\ "sessions" \in DOMAIN LoaderRepo.datasets
    /\ LoaderRepo.datasets["sessions"] # ret.data
    /\ \E cb \in Range(SubscriberList(LoaderRepo, "sessions")) :
           cb \notin Range(SubscriberList(LoaderRepo, "stations"))

=============================================================================
